---- MODULE Spec2Model ----
(***************************************************************************)
(* Streaming chat client of stackmind-chatbot: the frame decoder of        *)
(* chatStream, the single-flight guard of fetchJSON, the module-level      *)
(* activeChatController, and the ChatBot / ChatLayout reconciliation of    *)
(* the transcript with the selected conversation.                          *)
(*                                                                         *)
(* SpecDec   one chatStream call decoding one stream, chunk by chunk       *)
(* SpecKeyed ChatLayout.jsx, which remounts the ChatBot on every selection *)
(* SpecPlain the layout of part_011, which keeps one ChatBot               *)
(* SpecFetch the Sidebar and its fetchJSON calls                           *)
(* SpecPaced the sentence-paced ChatBot of ChatBot.jsx:309                 *)
(* SpecPacedOld its predecessor, the ChatBot of part_008:409                *)
(* SpecSide  the Sidebar beside the ChatBot in ChatLayout.jsx             *)
(* SpecPace  one exchange of the sentence-paced ChatBot, its response text *)
(*           cut into chunks in every way                                  *)
(* SpecNav   the routes of App.jsx with Login, Register and RequireAuth;    *)
(*           SpecNavLive adds the fairness of rendering and of effects     *)
(*                                                                         *)
(* Text is a sequence of one-character strings.  A JSON payload is a       *)
(* sequence of JSON tokens, one token per element: "{" "}" "," a digit,    *)
(* "k" for the member name "conversation_id": and "i" for the member       *)
(* "images":[...] with a non-empty list.                                   *)
(***************************************************************************)
EXTENDS Integers, Sequences, FiniteSets, TLC

VARIABLES
  \* ---- frame decoder of one chatStream call (SpecDec)
  stream,      \* the whole response body the server sends
  flushAtEnd,  \* TRUE: chatStream of Sidebar.jsx:350 (final flush), FALSE: api.js:60
  pos,         \* number of characters the transport has delivered
  value,       \* the chunk returned by the last reader.read()
  buffer,      \* let buffer = ''
  pc,          \* "read" (await reader.read()), "loop" (while (buffer.length)), "done"
  delivered,   \* callbacks invoked so far; adjacent onChunk texts are joined
  calls,       \* callbacks invoked by the last step, one entry per call
  \* ---- ChatLayout, ChatBot, chatStream and fetchJSON together (SpecKeyed, SpecPlain)
  layout,      \* "keyed": ChatLayout.jsx (ChatBot key={chatResetKey}), "plain": part_011
  version,     \* "v1": ChatBot of ChatBot.jsx:8, "p8": ChatBot of part_008:8
  activeConversationId,  \* state of ChatLayout, 0 for null
  chatResetKey,          \* state of ChatLayout.jsx
  bots,        \* the ChatBot instances created so far, the last one is mounted
  exch,        \* the chatStream calls made so far
  activeChatController,  \* 0 for null, else the chatStream call whose controller it is
  reqs,        \* the fetchJSON calls made so far (conversation history)
  inflight,    \* the inflight map: per key 0 (absent) or the call whose controller it holds
  notified,    \* the ids ChatLayout's onConversationCreated was called with
  \* ---- the Sidebar and its fetchJSON calls (SpecFetch)
  conversations,  \* state of Sidebar: the request whose response it holds, and the list
  serverList,     \* the conversations the backend holds
  \* ---- the sentence-paced ChatBot of ChatBot.jsx:309 in the layout of part_011 (SpecPaced)
  messages,          \* useState([]) of the ChatBot
  loading,           \* useState(false)
  isStreaming,       \* useState(false)
  conversationIdRef, \* useRef(activeConversationId), 0 for null
  chunkQueueRef,     \* useRef([])
  isProcessingRef,   \* useRef(false)
  sentenceBufferRef, \* useRef('')
  sleeping,          \* the processQueue calls suspended in await sleep(120), oldest first
  exchange,          \* the chatStream call of the last handleSend
  crashed,           \* a state updater threw while rendering: React unmounted the tree
  \* ---- the routes of App.jsx with Login, Register and RequireAuth (SpecNav)
  localStorage,      \* whether the items 'token' and 'user' are present
  location,          \* the path of the browser's location
  route,             \* the page rendered for the location, "none" before it is rendered
  form               \* state of the mounted Login or Register page

decVars == <<stream, flushAtEnd, pos, value, buffer, pc, delivered, calls>>

appVars == <<layout, version, activeConversationId, chatResetKey, bots, exch,
             activeChatController, reqs, inflight, notified>>

sideVars == <<conversations, serverList>>

pacedVars == <<messages, loading, isStreaming, conversationIdRef, chunkQueueRef,
               isProcessingRef, sentenceBufferRef, sleeping, exchange, crashed>>

vars == <<decVars, appVars, sideVars, pacedVars, localStorage, location, route, form>>

\* what the actions of one part leave alone
notDecVars == <<appVars, sideVars, pacedVars, localStorage, location, route, form>>
notAppVars == <<decVars, sideVars, pacedVars, localStorage, location, route, form>>

\* the variables of the sentence-paced ChatBot before it exists
NoPacedBot ==
  /\ messages = <<>> /\ loading = FALSE /\ isStreaming = FALSE
  /\ conversationIdRef = 0 /\ chunkQueueRef = <<>> /\ isProcessingRef = FALSE
  /\ sentenceBufferRef = <<>> /\ sleeping = <<>> /\ exchange = <<>> /\ crashed = FALSE

\* Login or Register as mounted: useState('') for each field and the error,
\* useState(false) for loading; effect: the effect of Login has not run yet
NoForm == [username |-> "", password |-> "", confirmPassword |-> "", error |-> "",
           loading |-> FALSE, effect |-> FALSE]

\* the variables of the router while the chat page is shown to a signed-in user
NoRouter ==
  /\ localStorage = [token |-> TRUE, user |-> TRUE]
  /\ location = "/chat" /\ route = "ChatLayout" /\ form = NoForm

-----------------------------------------------------------------------------
(* Strings *)

Min(a, b) == IF a < b THEN a ELSE b

\* s.slice(from, to) with 0-based from (inclusive) and to (exclusive)
Slice(s, from, to) == SubSeq(s, from + 1, to)

\* s.slice(from)
SliceFrom(s, from) == SubSeq(s, from + 1, Len(s))

\* s.startsWith(p)
StartsWith(s, p) == Len(s) >= Len(p) /\ SubSeq(s, 1, Len(p)) = p

\* s.indexOf(p): 0-based index of the first occurrence, -1 when there is none
IndexOf(s, p) ==
  LET hits == {i \in 0..(Len(s) - Len(p)) : SubSeq(s, i + 1, i + Len(p)) = p}
  IN IF hits = {} THEN -1 ELSE CHOOSE i \in hits : \A j \in hits : i <= j

WhiteSpace == {" ", "\n"}

\* s.trim()
Trim(s) ==
  LET solid == {i \in 1..Len(s) : s[i] \notin WhiteSpace}
  IN IF solid = {} THEN <<>>
     ELSE SubSeq(s, CHOOSE i \in solid : \A j \in solid : i <= j,
                    CHOOSE i \in solid : \A j \in solid : i >= j)

\* '__META__'
Marker == <<"_", "_", "M", "E", "T", "A", "_", "_">>

Terminator == <<"\n">>

Digits == {"1", "2"}

DigitValue(d) == IF d = "1" THEN 1 ELSE 2

\* the value of a payload that is no object with the members read by onMeta
NoMeta == [conversation_id |-> 0, images |-> FALSE]

\* JSON.parse(raw): ok = FALSE when it throws; conversation_id 0 and images
\* FALSE stand for an absent member
JSONParse(raw) ==
  LET t == Trim(raw) IN
  IF t = <<"{", "}">> THEN [ok |-> TRUE, meta |-> NoMeta]
  ELSE IF Len(t) = 1 /\ t[1] \in Digits THEN [ok |-> TRUE, meta |-> NoMeta]
  ELSE IF Len(t) = 4 /\ t[1] = "{" /\ t[2] = "k" /\ t[3] \in Digits /\ t[4] = "}"
    THEN [ok |-> TRUE, meta |-> [conversation_id |-> DigitValue(t[3]), images |-> FALSE]]
  ELSE IF t = <<"{", "i", "}">>
    THEN [ok |-> TRUE, meta |-> [conversation_id |-> 0, images |-> TRUE]]
  ELSE IF Len(t) = 6 /\ t[1] = "{" /\ t[2] = "k" /\ t[3] \in Digits /\ t[4] = ","
          /\ t[5] = "i" /\ t[6] = "}"
    THEN [ok |-> TRUE, meta |-> [conversation_id |-> DigitValue(t[3]), images |-> TRUE]]
  ELSE [ok |-> FALSE, meta |-> NoMeta]

-----------------------------------------------------------------------------
(* The decode loop of chatStream *)

ChunkCall(text) == [kind |-> "chunk", text |-> text, meta |-> NoMeta]
MetaCall(raw, meta) == [kind |-> "meta", text |-> raw, meta |-> meta]
ErrorLog(raw) == [kind |-> "error", text |-> raw, meta |-> NoMeta]

\* if (text.trim()) onChunk?.(text)
EmitText(text) == IF Trim(text) # <<>> THEN <<ChunkCall(text)>> ELSE <<>>

\* A plausible slip: a frame with no terminator yet is taken to end with the buffer.
DecodeIterNoWait(buf) ==
  IF StartsWith(buf, Marker)
  THEN LET metaEnd == IF IndexOf(buf, Terminator) = -1 THEN Len(buf)
                      ELSE IndexOf(buf, Terminator)
           metaRaw == Slice(buf, 8, metaEnd)
           parsed == JSONParse(metaRaw)
       IN [buf |-> SliceFrom(buf, metaEnd + 1),
           out |-> IF parsed.ok THEN <<MetaCall(metaRaw, parsed.meta)>>
                   ELSE <<ErrorLog(metaRaw)>>,
           brk |-> FALSE, threw |-> FALSE]
  ELSE LET nextMeta == IndexOf(buf, Marker) IN
       IF nextMeta = -1
       THEN [buf |-> <<>>, out |-> EmitText(buf), brk |-> FALSE, threw |-> FALSE]
       ELSE [buf |-> SliceFrom(buf, nextMeta), out |-> EmitText(Slice(buf, 0, nextMeta)),
             brk |-> FALSE, threw |-> FALSE]

\* A plausible slip: JSON.parse outside the try block, its exception leaves the loop.
DecodeIterNoCatch(buf) ==
  IF StartsWith(buf, Marker)
  THEN LET metaEnd == IndexOf(buf, Terminator) IN
       IF metaEnd = -1
       THEN [buf |-> buf, out |-> <<>>, brk |-> TRUE, threw |-> FALSE]
       ELSE LET metaRaw == Slice(buf, 8, metaEnd)
                parsed == JSONParse(metaRaw)
            IN [buf |-> SliceFrom(buf, metaEnd + 1),
                out |-> IF parsed.ok THEN <<MetaCall(metaRaw, parsed.meta)>> ELSE <<>>,
                brk |-> FALSE, threw |-> ~parsed.ok]
  ELSE LET nextMeta == IndexOf(buf, Marker) IN
       IF nextMeta = -1
       THEN [buf |-> <<>>, out |-> EmitText(buf), brk |-> FALSE, threw |-> FALSE]
       ELSE [buf |-> SliceFrom(buf, nextMeta), out |-> EmitText(Slice(buf, 0, nextMeta)),
             brk |-> FALSE, threw |-> FALSE]

\* One pass of the body of while (buffer.length): the buffer left, the calls made
\* (onMeta, onChunk, console.error), whether the loop breaks, whether it throws.
DecodeIter(buf) ==
  IF StartsWith(buf, Marker)
  THEN LET metaEnd == IndexOf(buf, Terminator) IN
       IF metaEnd = -1
       THEN [buf |-> buf, out |-> <<>>, brk |-> TRUE, threw |-> FALSE]
       ELSE LET metaRaw == Slice(buf, 8, metaEnd)
                parsed == JSONParse(metaRaw)
            IN [buf |-> SliceFrom(buf, metaEnd + 1),
                out |-> IF parsed.ok THEN <<MetaCall(metaRaw, parsed.meta)>>
                        ELSE <<ErrorLog(metaRaw)>>,
                brk |-> FALSE, threw |-> FALSE]
  ELSE LET nextMeta == IndexOf(buf, Marker) IN
       IF nextMeta = -1
       THEN [buf |-> <<>>, out |-> EmitText(buf), brk |-> FALSE, threw |-> FALSE]
       ELSE [buf |-> SliceFrom(buf, nextMeta), out |-> EmitText(Slice(buf, 0, nextMeta)),
             brk |-> FALSE, threw |-> FALSE]

\* The whole of while (buffer.length) { ... } on one buffer.
RECURSIVE DecodeLoop(_)
DecodeLoop(buf) ==
  IF buf = <<>> THEN [buf |-> buf, out |-> <<>>, threw |-> FALSE]
  ELSE LET r == DecodeIter(buf) IN
       IF r.threw \/ r.brk THEN [buf |-> r.buf, out |-> r.out, threw |-> r.threw]
       ELSE LET more == DecodeLoop(r.buf)
            IN [buf |-> more.buf, out |-> r.out \o more.out, threw |-> more.threw]

\* if (buffer.trim()) onChunk?.(buffer), which only Sidebar.jsx:424 has
FinalFlush(buf, flush) == IF flush THEN EmitText(buf) ELSE <<>>

\* The log of calls with adjacent onChunk texts joined.
RECURSIVE Join(_, _)
Join(log, out) ==
  IF out = <<>> THEN log
  ELSE LET c == Head(out) IN
       IF c.kind = "chunk" /\ log # <<>> /\ log[Len(log)].kind = "chunk"
       THEN Join(SubSeq(log, 1, Len(log) - 1)
                   \o <<ChunkCall(log[Len(log)].text \o c.text)>>, Tail(out))
       ELSE Join(Append(log, c), Tail(out))

SelectKind(log, kind) == SelectSeq(log, LAMBDA c : c.kind = kind)

\* everything onChunk received, concatenated
RECURSIVE TextOf(_)
TextOf(log) ==
  IF log = <<>> THEN <<>>
  ELSE (IF Head(log).kind = "chunk" THEN Head(log).text ELSE <<>>) \o TextOf(Tail(log))

\* the payloads onMeta received, in order
MetasOf(log) == [i \in 1..Len(SelectKind(log, "meta")) |-> SelectKind(log, "meta")[i].meta]

-----------------------------------------------------------------------------
(* SpecDec: one response body, cut into chunks in every way *)

Frame(payload) == Marker \o payload \o Terminator

PayloadId1 == <<"{", "k", "1", "}">>
PayloadId2 == <<"{", "k", "2", "}">>
PayloadImages == <<"{", "i", "}">>
PayloadBad == <<"{", "k">>

Streams ==
  { <<"a">> \o Frame(PayloadId1) \o <<"b", ".">>,
    Frame(PayloadBad) \o Frame(PayloadId2) \o <<"c">>,
    <<"a", " ", "b">>,
    Frame(PayloadId1) \o <<"a">> \o Frame(PayloadImages),
    <<"a">> \o Marker \o PayloadId1 }

MaxChunk == 26

DecInit ==
  /\ stream \in Streams
  /\ flushAtEnd \in BOOLEAN
  /\ pos = 0
  /\ value = <<>>
  /\ buffer = <<>>
  /\ pc = "read"
  /\ delivered = <<>>
  /\ calls = <<>>
  /\ layout = "none" /\ version = "none"
  /\ activeConversationId = 0 /\ chatResetKey = 0
  /\ bots = <<>> /\ exch = <<>> /\ activeChatController = 0
  /\ reqs = <<>> /\ inflight = <<>> /\ notified = <<>>
  /\ conversations = <<>> /\ serverList = {}
  /\ NoPacedBot
  /\ NoRouter

\* const { value, done } = await reader.read(); buffer += decoder.decode(value)
ReadChunk ==
  /\ pc = "read"
  /\ pos < Len(stream)
  /\ \E n \in 1..Min(MaxChunk, Len(stream) - pos) :
       /\ value' = SubSeq(stream, pos + 1, pos + n)
       /\ pos' = pos + n
  /\ buffer' = buffer \o value'
  /\ pc' = "loop"
  /\ calls' = <<>>
  /\ UNCHANGED <<stream, flushAtEnd, delivered, notDecVars>>

\* one pass of while (buffer.length)
DecodeStep ==
  /\ pc = "loop"
  /\ IF buffer = <<>>
     THEN /\ pc' = "read"
          /\ calls' = <<>>
          /\ UNCHANGED <<buffer, delivered>>
     ELSE LET r == DecodeIter(buffer) IN
          /\ buffer' = r.buf
          /\ calls' = r.out
          /\ delivered' = Join(delivered, r.out)
          /\ pc' = IF r.threw THEN "threw" ELSE IF r.brk THEN "read" ELSE "loop"
  /\ UNCHANGED <<stream, flushAtEnd, pos, value, notDecVars>>

\* if (done) break; then the final flush
ReadDone ==
  /\ pc = "read"
  /\ pos = Len(stream)
  /\ calls' = FinalFlush(buffer, flushAtEnd)
  /\ delivered' = Join(delivered, calls')
  /\ pc' = "done"
  /\ UNCHANGED <<stream, flushAtEnd, pos, value, buffer, notDecVars>>

DecNext == ReadChunk \/ DecodeStep \/ ReadDone

SpecDec == DecInit /\ [][DecNext]_vars

-----------------------------------------------------------------------------
(* Claims about the decoder, checked under SpecDec *)

\* what chatStream delivers when the whole body arrives as one chunk
WholeStream(s, flush) ==
  LET r == DecodeLoop(s) IN Join(<<>>, r.out \o FinalFlush(r.buf, flush))

\* the buffer starts with the marker and holds no terminator
AwaitingTerminator(buf) == StartsWith(buf, Marker) /\ IndexOf(buf, Terminator) = -1

\* C5: however a body of text segments and terminated frames is cut into chunks,
\* once the stream has ended onChunk has
\* received the same concatenated text and onMeta the same payloads, in the same
\* order, as when the whole body arrives as one chunk.
C5_SplitInvariance ==
  (pc = "done" /\ DecodeLoop(stream).buf = <<>>) =>
    /\ TextOf(delivered) = TextOf(WholeStream(stream, flushAtEnd))
    /\ MetasOf(delivered) = MetasOf(WholeStream(stream, flushAtEnd))

\* C6: onMeta is called only with the payload of a frame whose terminator is in
\* the buffer; a pass that finds the marker without a terminator leaves the loop
\* with no call and the same buffer, and while the stream stays open the next
\* thing to happen to that buffer is that the next chunk is appended to it.
C6_NoPartialFrame ==
  [][ /\ \A i \in 1..Len(calls') :
           calls'[i].kind = "meta" =>
             /\ pc = "loop"
             /\ StartsWith(buffer, Frame(calls'[i].text))
             /\ buffer' = SliceFrom(buffer, Len(Frame(calls'[i].text)))
      /\ (pc = "loop" /\ AwaitingTerminator(buffer)) =>
           (pc' = "read" /\ buffer' = buffer /\ calls' = <<>> /\ delivered' = delivered)
      /\ (pc = "read" /\ AwaitingTerminator(buffer) /\ pc' # "done") =>
           (buffer' = buffer \o value' /\ calls' = <<>> /\ delivered' = delivered)
    ]_vars

\* C6 witness: the decoder waits with the marker and part of a payload buffered,
\* more of the stream still to come, and nothing of that frame delivered.
C6_Witness ==
  /\ pc = "read"
  /\ AwaitingTerminator(buffer)
  /\ Len(buffer) > Len(Marker)
  /\ pos < Len(stream)
  /\ calls = <<>>
  /\ SelectKind(delivered, "meta") = <<>>

\* C7: a pass over a complete frame whose payload does not parse calls neither
\* onMeta nor onChunk, throws nothing (the loop goes on), logs the payload and
\* leaves in the buffer exactly what follows the frame's terminator, which the
\* next passes decode.
C7_MalformedFrameDropped ==
  /\ [](pc # "threw")
  /\ [][ ( /\ pc = "loop"
           /\ StartsWith(buffer, Marker)
           /\ IndexOf(buffer, Terminator) # -1
           /\ ~JSONParse(Slice(buffer, 8, IndexOf(buffer, Terminator))).ok ) =>
         ( /\ pc' = "loop"
           /\ buffer' = SliceFrom(buffer, IndexOf(buffer, Terminator) + 1)
           /\ calls' = <<ErrorLog(Slice(buffer, 8, IndexOf(buffer, Terminator)))>>
           /\ TextOf(delivered') = TextOf(delivered)
           /\ MetasOf(delivered') = MetasOf(delivered) )
       ]_vars

\* C7 witness: the stream has ended, a malformed frame was dropped and logged, and
\* the frame and the text that follow it were delivered after it.
C7_Witness ==
  /\ pc = "done"
  /\ \E i, j, k \in DOMAIN delivered :
       /\ i < j /\ j < k
       /\ delivered[i].kind = "error"
       /\ delivered[j].kind = "meta"
       /\ delivered[k].kind = "chunk"

\* the body s without its complete frames, marker through terminator
RECURSIVE StripFrames(_)
StripFrames(s) ==
  IF s = <<>> THEN <<>>
  ELSE IF StartsWith(s, Marker) /\ IndexOf(s, Terminator) # -1
  THEN StripFrames(SliceFrom(s, IndexOf(s, Terminator) + 1))
  ELSE <<Head(s)>> \o StripFrames(Tail(s))

\* C28: the decoder loses no character of non-meta content: once the stream has
\* ended, the concatenation of the texts passed to onChunk is the body with its
\* complete frames removed, segments of whitespace included.
C28_NoTextLost ==
  pc = "done" => TextOf(delivered) = StripFrames(stream)

\* C29: the marker is never split across two texts: no text just passed to
\* onChunk ends with a non-empty proper prefix of the marker while the rest of
\* the marker is what the stream brings next.
C29_MarkerNeverSplit ==
  \A i \in 1..Len(calls) :
    calls[i].kind = "chunk" =>
      \A n \in 1..(Len(Marker) - 1) :
        ~ /\ Len(calls[i].text) >= n
          /\ SliceFrom(calls[i].text, Len(calls[i].text) - n) = SubSeq(Marker, 1, n)
          /\ buffer = <<>>
          /\ StartsWith(SliceFrom(stream, pos), SliceFrom(Marker, n))

\* C30: when the stream ends with a non-empty buffer, the buffer is passed to
\* onChunk, once, as the last call: after everything delivered before.
C30_ResidualFlushedOnce ==
  [][ (ReadDone /\ buffer # <<>>) =>
        /\ calls' = <<ChunkCall(buffer)>>
        /\ delivered' = Join(delivered, <<ChunkCall(buffer)>>) ]_vars

-----------------------------------------------------------------------------
(* ChatLayout, ChatBot, chatStream and fetchJSON *)

\* null, as a conversation id, a controller or a streaming id
NoConv == 0

ConvIds == {1, 2}

MaxBots == 3
MaxExchanges == 3
MaxPlainExchanges == 2
MaxRequests == 3
MaxChunksPerExchange == 2

UserMsg(e, text) ==
  [id |-> <<"user", e>>, role |-> "user", message |-> text, images |-> FALSE]

\* { id: streamingId, role: 'assistant', message: '' }
AssistantMsg(e) ==
  [id |-> <<"assistant", e>>, role |-> "assistant", message |-> <<>>, images |-> FALSE]

\* { id: 'error', role: 'assistant', message: 'Failed to load conversation.' }
LoadErrorMsg ==
  [id |-> <<"error", 0>>, role |-> "assistant",
   message |-> <<"Failed to load conversation.">>, images |-> FALSE]

\* the text the finally block of part_008 puts in a placeholder that got nothing
FallbackText == <<"I want to get this right for you.">>

\* res.messages of GET /conversations/{id}: conversation c holds c messages
HistoryOf(c) ==
  [i \in 1..c |->
     [id |-> <<"history", 10 * c + i>>, role |-> IF i = 1 THEN "user" ELSE "assistant",
      message |-> <<"h">>, images |-> FALSE]]

\* useState / useRef initial values of a ChatBot mounted with this prop
NewBot(ver, active) ==
  [conversationIdRef |-> IF ver = "v1" THEN active ELSE NoConv,
   messages |-> <<>>, loading |-> FALSE, streamingIdRef |-> 0,
   hideWelcome |-> FALSE, mounted |-> TRUE]

\* React drops a state update of an unmounted component
SetMessages(b, msgs) == IF b.mounted THEN [b EXCEPT !.messages = msgs] ELSE b

SetLoading(b, flag) == IF b.mounted THEN [b EXCEPT !.loading = flag] ELSE b

\* msg.id === streamingId, for the streamingId of exchange e
IsStreamingMsg(msg, e) == msg.id = <<"assistant", e>>

\* useEffect(..., [activeConversationId]) of ChatBot.jsx:50; fetch is the id whose
\* history it requests, 0 when it requests none
ConvEffectV1(b, active) ==
  LET previousId == b.conversationIdRef IN
  IF previousId # NoConv /\ active = NoConv
  THEN [bot |-> [b EXCEPT !.conversationIdRef = NoConv, !.messages = <<>>,
                          !.hideWelcome = FALSE],
        fetch |-> 0]
  ELSE IF previousId = NoConv /\ active # NoConv
  THEN [bot |-> [b EXCEPT !.conversationIdRef = active], fetch |-> 0]
  ELSE IF previousId = active
  THEN [bot |-> b, fetch |-> 0]
  ELSE [bot |-> [b EXCEPT !.conversationIdRef = active, !.messages = <<>>,
                          !.hideWelcome = TRUE],
        fetch |-> active]

\* useEffect(..., [activeConversationId]) of part_008:54
ConvEffectP8(b, active) ==
  IF active = NoConv
  THEN [bot |-> [b EXCEPT !.conversationIdRef = NoConv, !.messages = <<>>,
                          !.hideWelcome = FALSE],
        fetch |-> 0]
  ELSE IF b.conversationIdRef = active
  THEN [bot |-> b, fetch |-> 0]
  ELSE [bot |-> [b EXCEPT !.conversationIdRef = active, !.hideWelcome = TRUE,
                          !.messages = <<>>],
        fetch |-> active]

\* an effect without the comparisons of the ref: every run resets the ChatBot and
\* fetches a history, that of conversation 1 for New Chat
ConvEffectFetchOnNewChat(ver, b, active) ==
  [bot |-> [b EXCEPT !.conversationIdRef = active, !.messages = <<>>,
                     !.hideWelcome = (active # NoConv)],
   fetch |-> IF active = NoConv THEN 1 ELSE active]

ConvEffect(ver, b, active) ==
  IF ver = "v1" THEN ConvEffectV1(b, active) ELSE ConvEffectP8(b, active)

\* fetchJSON up to its await: abort the controller the map holds for the key,
\* register a new one (Sidebar.jsx:300-310)
FetchJSONCall(rs, inf, key, owner) ==
  LET prev == inf[key]
      aborted == IF prev # 0 /\ rs[prev].phase = "pending"
                 THEN [rs EXCEPT ![prev].phase = "aborted"] ELSE rs
      all == Append(aborted, [key |-> key, owner |-> owner, phase |-> "pending"])
  IN [reqs |-> all, inflight |-> [inf EXCEPT ![key] = Len(all)]]

\* finally { inflight.delete(key) } (Sidebar.jsx:325-327)
FetchJSONFinally(inf, key) == [inf EXCEPT ![key] = 0]

\* The mounted ChatBot renders with the prop active and its effect runs.
RunEffect(bs, rs, inf, active) ==
  LET cur == Len(bs)
      eff == ConvEffect(version, bs[cur], active)
      f == IF eff.fetch = 0 THEN [reqs |-> rs, inflight |-> inf]
           ELSE FetchJSONCall(rs, inf, eff.fetch, cur)
  IN [bots |-> [bs EXCEPT ![cur] = eff.bot], reqs |-> f.reqs, inflight |-> f.inflight,
      fetch |-> eff.fetch]

InFlight(x) == x.phase \in {"fetch", "read"}

AppInit(lay) ==
  /\ layout = lay
  /\ version \in {"v1", "p8"}
  /\ activeConversationId = NoConv
  /\ chatResetKey = 0
  /\ bots = <<NewBot(version, NoConv)>>
  /\ exch = <<>>
  /\ activeChatController = 0
  /\ reqs = <<>>
  /\ inflight = [k \in ConvIds |-> 0]
  /\ notified = <<>>
  /\ stream = <<>> /\ flushAtEnd = TRUE /\ pos = 0 /\ value = <<>>
  /\ buffer = <<>> /\ pc = "idle" /\ delivered = <<>> /\ calls = <<>>
  /\ conversations = <<>> /\ serverList = {}
  /\ NoPacedBot
  /\ NoRouter

\* An exchange whose chatStream call has returned or thrown: its closure is dead.
Ended ==
  [owner |-> 0, arg |-> NoConv, phase |-> "ended", at |-> "fetch", n |-> 0, buf |-> <<>>,
   finalText |-> <<>>, finalImages |-> FALSE, superseded |-> FALSE, first |-> NoConv]

\* An unmounted ChatBot: React holds no state for it, its refs stay reachable from
\* the callbacks of its exchanges and history requests.
Unmounted(b) ==
  [b EXCEPT !.mounted = FALSE, !.messages = <<>>, !.loading = FALSE,
            !.streamingIdRef = 0, !.hideWelcome = FALSE]

\* Sidebar handleSelect / handleNewChat / handleClose -> onSelectConversation(id):
\* ChatLayout.jsx:90-94 (keyed) or part_011:29-32 (plain), then the ChatBot effect
SelectApp(id) ==
  LET marked == [e \in 1..Len(exch) |->
                   IF id # activeConversationId /\ exch[e].phase # "ended"
                   THEN [exch[e] EXCEPT !.superseded = TRUE] ELSE exch[e]]
      cur == Len(bots)
      remounted == Append([bots EXCEPT ![cur] = Unmounted(@)], NewBot(version, id))
  IN /\ layout = "keyed" => Len(bots) < MaxBots
     /\ \E r \in {IF layout = "keyed"
                  THEN RunEffect(remounted, reqs, inflight, id)
                  ELSE IF id = activeConversationId
                       THEN [bots |-> bots, reqs |-> reqs, inflight |-> inflight, fetch |-> 0]
                       ELSE RunEffect(bots, reqs, inflight, id)} :
          /\ bots' = r.bots
          /\ reqs' = r.reqs
          /\ inflight' = r.inflight
     /\ activeConversationId' = id
     /\ chatResetKey' = IF layout = "keyed" THEN chatResetKey + 1 ELSE chatResetKey
     /\ exch' = marked
     /\ UNCHANGED <<layout, version, activeChatController, notified>>

\* a selection, while fewer than MaxRequests history requests were made
Select(id) ==
  /\ SelectApp(id)
  /\ Len(reqs') <= MaxRequests
  /\ UNCHANGED notAppVars

\* the contents of the input box when the form is submitted
InputMessages == {<<"q">>, <<" ", "q", "\n">>, <<" ">>, <<>>}

\* a handleSend that sends the input as typed
userTextRaw(inputMessage) == inputMessage

\* const userText = inputMessage.trim() (ChatBot.jsx:142, part_008:144)
userText(inputMessage) == Trim(inputMessage)

\* a handleSend that does not look at loading before it sends
HandleSendWhileLoading ==
  LET cur == Len(bots)
      b == bots[cur]
      e == Len(exch) + 1
      old == activeChatController
      aborted == IF old # 0 /\ InFlight(exch[old])
                 THEN [exch EXCEPT ![old].phase = "aborted", ![old].at = exch[old].phase]
                 ELSE exch
  IN /\ Len(exch) < (IF layout = "keyed" THEN MaxExchanges ELSE MaxPlainExchanges)
     /\ \E inputMessage \in InputMessages :
          /\ Trim(inputMessage) # <<>>
          /\ bots' = [bots EXCEPT ![cur] =
                        [b EXCEPT !.streamingIdRef = e, !.hideWelcome = TRUE,
                                  !.loading = TRUE,
                                  !.messages = b.messages \o
                                    <<UserMsg(e, Trim(inputMessage)), AssistantMsg(e)>>]]
     /\ exch' = Append(aborted,
                  [owner |-> cur, arg |-> b.conversationIdRef, phase |-> "fetch",
                   at |-> "fetch", n |-> 0, buf |-> <<>>, finalText |-> <<>>,
                   finalImages |-> FALSE, superseded |-> FALSE, first |-> NoConv])
     /\ activeChatController' = e
     /\ UNCHANGED <<layout, version, activeConversationId, chatResetKey, reqs, inflight,
                    notified, notAppVars>>

\* handleSend of the mounted ChatBot (ChatBot.jsx:138-161, part_008:140-171) and
\* chatStream up to its await fetch (Sidebar.jsx:350-372)
HandleSend ==
  LET cur == Len(bots)
      b == bots[cur]
      e == Len(exch) + 1
      old == activeChatController
      aborted == IF old # 0 /\ InFlight(exch[old])
                 THEN [exch EXCEPT ![old].phase = "aborted", ![old].at = exch[old].phase]
                 ELSE exch
  IN /\ ~b.loading
     /\ Len(exch) < (IF layout = "keyed" THEN MaxExchanges ELSE MaxPlainExchanges)
     /\ \E inputMessage \in InputMessages :
          /\ Trim(inputMessage) # <<>>
          /\ bots' = [bots EXCEPT ![cur] =
                        [b EXCEPT !.streamingIdRef = e, !.hideWelcome = TRUE,
                                  !.loading = TRUE,
                                  !.messages = b.messages \o
                                    <<UserMsg(e, userText(inputMessage)), AssistantMsg(e)>>]]
     /\ exch' = Append(aborted,
                  [owner |-> cur, arg |-> b.conversationIdRef, phase |-> "fetch",
                   at |-> "fetch", n |-> 0, buf |-> <<>>, finalText |-> <<>>,
                   finalImages |-> FALSE, superseded |-> FALSE, first |-> NoConv])
     /\ activeChatController' = e
     /\ UNCHANGED <<layout, version, activeConversationId, chatResetKey, reqs, inflight,
                    notified, notAppVars>>

\* a handleSend without its finally block
HandleSendNoFinally(bs, x, e) == bs

\* the finally block of handleSend (ChatBot.jsx:178-182, part_008:206-230)
HandleSendFinally(bs, x, e) ==
  LET o == x.owner
      b1 == SetLoading([bs[o] EXCEPT !.streamingIdRef = 0], FALSE)
      Final(msg) ==
        IF ~IsStreamingMsg(msg, e) THEN msg
        ELSE IF x.finalText = <<>> /\ ~x.finalImages
        THEN [msg EXCEPT !.message = FallbackText, !.images = FALSE]
        ELSE [msg EXCEPT !.message = x.finalText, !.images = x.finalImages]
      b2 == IF version = "p8"
            THEN SetMessages(b1, [i \in 1..Len(b1.messages) |-> Final(b1.messages[i])])
            ELSE b1
  IN [bs EXCEPT ![o] = b2]

\* One call made by the decode loop reaches the callbacks handleSend passed:
\* onChunk (ChatBot.jsx:162-170, part_008:172-181), onMeta (ChatBot.jsx:171-176,
\* part_008:182-204) with ChatLayout's onConversationCreated (ChatLayout.jsx:265-267).
ApplyCall(st, e, c) ==
  LET o == st.x.owner
      b == st.bots[o]
      AddText(msg) == IF IsStreamingMsg(msg, e)
                      THEN [msg EXCEPT !.message = msg.message \o c.text] ELSE msg
      AddImages(msg) == IF IsStreamingMsg(msg, e) THEN [msg EXCEPT !.images = TRUE] ELSE msg
  IN IF c.kind = "chunk"
     THEN [st EXCEPT !.x.finalText = IF version = "p8" THEN st.x.finalText \o c.text
                                     ELSE st.x.finalText,
                     !.bots[o] = SetMessages(b, [i \in 1..Len(b.messages) |->
                                                    AddText(b.messages[i])])]
     ELSE IF c.kind = "meta"
     THEN LET binds == b.conversationIdRef = NoConv /\ c.meta.conversation_id # 0
              b1 == IF binds THEN [b EXCEPT !.conversationIdRef = c.meta.conversation_id]
                    ELSE b
              withImages == version = "p8" /\ c.meta.images
              b2 == IF withImages
                    THEN SetMessages(b1, [i \in 1..Len(b1.messages) |->
                                            AddImages(b1.messages[i])])
                    ELSE b1
          IN [st EXCEPT !.bots[o] = b2,
                        !.x.finalImages = IF withImages THEN TRUE ELSE st.x.finalImages,
                        !.active = IF binds /\ layout = "keyed"
                                   THEN c.meta.conversation_id ELSE st.active,
                        !.notified = IF binds /\ layout = "keyed"
                                     THEN Append(st.notified, c.meta.conversation_id)
                                     ELSE st.notified]
     ELSE st

RECURSIVE ApplyCalls(_, _, _)
ApplyCalls(st, e, out) ==
  IF out = <<>> THEN st ELSE ApplyCalls(ApplyCall(st, e, Head(out)), e, Tail(out))

\* what the server may send next on the stream of exchange x: text, or a frame
\* with the conversation id (the requested one, or a new one for a new
\* conversation), with or without images
ServerChunks(x) ==
  {<<"a", ".">>}
    \cup {Frame(<<"{", "k", d, "}">>) :
            d \in {d \in Digits : x.arg = NoConv \/ DigitValue(d) = x.arg}}
    \cup {Frame(<<"{", "k", d, ",", "i", "}">>) :
            d \in {d \in Digits : version = "p8" /\ DigitValue(d) = x.arg}}

\* the conversation id of the Meta frame the stream of x, an exchange started in
\* a new conversation, began with; x.first keeps it for the properties, the code
\* keeps no such record
FirstId(x, out) ==
  IF x.arg = NoConv /\ x.n = 0 /\ out # <<>> /\ out[1].kind = "meta"
  THEN out[1].meta.conversation_id
  ELSE x.first

\* await fetch(...) resolves with an ok response (Sidebar.jsx:364-380)
Respond(e) ==
  /\ exch[e].phase = "fetch"
  /\ exch' = [exch EXCEPT ![e].phase = "read"]
  /\ UNCHANGED <<layout, version, activeConversationId, chatResetKey, bots,
                 activeChatController, reqs, inflight, notified, notAppVars>>

\* reader.read() returns a chunk: decode it, run the callbacks (Sidebar.jsx:386-421),
\* then React renders and the effect of the mounted ChatBot runs if the prop changed
RecvChunk(e) ==
  /\ exch[e].phase = "read"
  /\ exch[e].n < MaxChunksPerExchange
  /\ \E chunk \in ServerChunks(exch[e]) :
     \E d \in {DecodeLoop(exch[e].buf \o chunk)} :
     \E st \in {ApplyCalls([bots |-> bots,
                            x |-> [exch[e] EXCEPT !.buf = d.buf, !.n = @ + 1,
                                                  !.first = FirstId(exch[e], d.out)],
                            active |-> activeConversationId, notified |-> notified],
                           e, d.out)} :
     \E r \in {IF st.active # activeConversationId
               THEN RunEffect(st.bots, reqs, inflight, st.active)
               ELSE [bots |-> st.bots, reqs |-> reqs, inflight |-> inflight, fetch |-> 0]} :
          /\ r.fetch # 0 => Len(reqs) < MaxRequests
          /\ bots' = r.bots
          /\ reqs' = r.reqs
          /\ inflight' = r.inflight
          /\ exch' = [exch EXCEPT ![e] = st.x]
          /\ activeConversationId' = st.active
          /\ notified' = st.notified
  /\ UNCHANGED <<layout, version, chatResetKey, activeChatController, notAppVars>>

\* reader.read() returns done: final flush, finally { activeChatController = null }
\* (Sidebar.jsx:387, 423-429), then the finally block of handleSend
StreamEnd(e) ==
  /\ exch[e].phase = "read"
  /\ \E st \in {ApplyCalls([bots |-> bots, x |-> exch[e],
                            active |-> activeConversationId, notified |-> notified],
                           e, FinalFlush(exch[e].buf, TRUE))} :
        bots' = HandleSendFinally(st.bots, st.x, e)
  /\ exch' = [exch EXCEPT ![e] = Ended]
  /\ activeChatController' = 0
  /\ UNCHANGED <<layout, version, activeConversationId, chatResetKey, reqs, inflight,
                 notified, notAppVars>>

\* the transport fails: fetch rejects (chatStream throws at Sidebar.jsx:364), the
\* response is not ok (Sidebar.jsx:374-377) or reader.read() rejects (finally at
\* Sidebar.jsx:427-429); then the finally block of handleSend
ChatFail(e) ==
  /\ InFlight(exch[e])
  /\ \E notOk \in BOOLEAN :
       activeChatController' =
         IF exch[e].phase = "read" \/ notOk THEN 0 ELSE activeChatController
  /\ exch' = [exch EXCEPT ![e] = Ended]
  /\ bots' = HandleSendFinally(bots, exch[e], e)
  /\ UNCHANGED <<layout, version, activeConversationId, chatResetKey, reqs, inflight,
                 notified, notAppVars>>

\* the pending await of an aborted chatStream rejects with AbortError: out of
\* fetch nothing else runs in chatStream, out of reader.read() its finally runs
AbortSettle(e) ==
  /\ exch[e].phase = "aborted"
  /\ activeChatController' = IF exch[e].at = "read" THEN 0 ELSE activeChatController
  /\ exch' = [exch EXCEPT ![e] = Ended]
  /\ bots' = HandleSendFinally(bots, exch[e], e)
  /\ UNCHANGED <<layout, version, activeConversationId, chatResetKey, reqs, inflight,
                 notified, notAppVars>>

\* a ChatBot whose history callbacks never touch the transcript
HistoryAppliesNever(q) == FALSE

\* whether the then / catch callback of the history fetch of request q is applied:
\* part_008:74,78 return when conversationIdRef.current !== requestedId
HistoryApplies(q) ==
  version = "v1" \/ bots[q.owner].conversationIdRef = q.key

\* fetchConversationHistory resolves: fetchJSON's finally, then
\* .then(res => setMessages(res.messages || [])) (ChatBot.jsx:77, part_008:73-76)
HistoryOk(r) ==
  /\ reqs[r].phase = "pending"
  /\ reqs' = [reqs EXCEPT ![r].phase = "settled", ![r].owner = 0]
  /\ inflight' = FetchJSONFinally(inflight, reqs[r].key)
  /\ bots' = IF HistoryApplies(reqs[r])
             THEN [bots EXCEPT ![reqs[r].owner] = SetMessages(@, HistoryOf(reqs[r].key))]
             ELSE bots
  /\ UNCHANGED <<layout, version, activeConversationId, chatResetKey, exch,
                 activeChatController, notified, notAppVars>>

\* fetchConversationHistory rejects, because the request failed or because a newer
\* fetchJSON call aborted it: fetchJSON's finally, then the catch callback
\* (ChatBot.jsx:78-86, part_008:77-86)
HistoryReject(r) ==
  /\ reqs[r].phase \in {"pending", "aborted"}
  /\ reqs' = [reqs EXCEPT ![r].phase = "settled", ![r].owner = 0]
  /\ inflight' = FetchJSONFinally(inflight, reqs[r].key)
  /\ bots' = IF HistoryApplies(reqs[r])
             THEN [bots EXCEPT ![reqs[r].owner] = SetMessages(@, <<LoadErrorMsg>>)]
             ELSE bots
  /\ UNCHANGED <<layout, version, activeConversationId, chatResetKey, exch,
                 activeChatController, notified, notAppVars>>

\* ChatLayout.jsx remounts the ChatBot on every selection, so a new ChatBot can
\* send while the exchange of an old one is still in flight.
KeyedNext ==
  \/ \E id \in ConvIds \cup {NoConv} : Select(id)
  \/ HandleSend
  \/ \E e \in 1..Len(exch) : Respond(e)
  \/ \E e \in 1..Len(exch) : RecvChunk(e)
  \/ \E e \in 1..Len(exch) : StreamEnd(e)
  \/ \E e \in 1..Len(exch) : ChatFail(e)
  \/ \E e \in 1..Len(exch) : AbortSettle(e)
  \/ \E r \in 1..Len(reqs) : HistoryOk(r)
  \/ \E r \in 1..Len(reqs) : HistoryReject(r)

SpecKeyed == AppInit("keyed") /\ [][KeyedNext]_vars

\* The layout of part_011 keeps one ChatBot: loading lets it send only after its
\* exchange has ended, so no chatStream call is ever aborted.
PlainNext ==
  \/ \E id \in ConvIds \cup {NoConv} : Select(id)
  \/ HandleSend
  \/ \E e \in 1..Len(exch) : Respond(e)
  \/ \E e \in 1..Len(exch) : RecvChunk(e)
  \/ \E e \in 1..Len(exch) : StreamEnd(e)
  \/ \E e \in 1..Len(exch) : ChatFail(e)
  \/ \E r \in 1..Len(reqs) : HistoryOk(r)
  \/ \E r \in 1..Len(reqs) : HistoryReject(r)

SpecPlain == AppInit("plain") /\ [][PlainNext]_vars

-----------------------------------------------------------------------------
(* Claims about exchanges and conversations, checked under SpecKeyed and SpecPlain *)

\* the messages the mounted ChatBot shows
Transcript == bots[Len(bots)].messages

\* conversationIdRef.current of the mounted ChatBot
CurrentRef == bots[Len(bots)].conversationIdRef

\* this step is exchange e receiving a chunk and running its callbacks
RecvStep(e) ==
  /\ e \in DOMAIN exch
  /\ exch[e].phase = "read"
  /\ exch'[e].phase = "read"
  /\ exch'[e].n = exch[e].n + 1

\* this step is a selection in the sidebar
SelectStep ==
  \/ chatResetKey' # chatResetKey
  \/ layout = "plain" /\ activeConversationId' # activeConversationId

ErrorTexts == {LoadErrorMsg.message, FallbackText}

ShowsError(msgs) == \E i \in 1..Len(msgs) : msgs[i].message \in ErrorTexts

\* C1: once a later exchange has been started, a chunk received by an earlier
\* exchange leaves the transcript as it is.
C1_LaterStartSilencesEarlier ==
  [][ \A a \in DOMAIN exch :
        (RecvStep(a) /\ Len(exch) > a) => Transcript' = Transcript ]_vars

\* C3: a chunk received by an exchange that was in flight when the user selected
\* another conversation changes neither conversationIdRef of the mounted ChatBot
\* nor activeConversationId, and onConversationCreated is not called.
C3_SupersededMetaDiscarded ==
  [][ \A e \in DOMAIN exch :
        (RecvStep(e) /\ exch[e].superseded) =>
          /\ CurrentRef' = CurrentRef
          /\ activeConversationId' = activeConversationId
          /\ notified' = notified ]_vars

\* C4: at most one chatStream call is in flight and not aborted.
C4_OneExchangeInFlight ==
  Cardinality({e \in DOMAIN exch : InFlight(exch[e])}) <= 1

\* C9: when the rejection of an aborted history fetch or of an aborted chatStream
\* call is delivered, no error message appears in the transcript.
C9_AbortNeverShowsError ==
  [][ ( \/ \E r \in DOMAIN reqs : reqs[r].phase = "aborted" /\ reqs'[r].phase = "settled"
        \/ \E e \in DOMAIN exch : exch[e].phase = "aborted" /\ exch'[e].phase = "ended" ) =>
      (ShowsError(Transcript') => ShowsError(Transcript)) ]_vars

\* C10: between two selections the conversation id, once it has a value, keeps
\* it: neither conversationIdRef of the mounted ChatBot nor activeConversationId
\* goes from one id to another or back to null.
C10_ConversationIdBoundOnce ==
  [][ ~SelectStep =>
        /\ CurrentRef # NoConv => CurrentRef' = CurrentRef
        /\ activeConversationId # NoConv => activeConversationId' = activeConversationId
    ]_vars

\* C11: when the stream of an exchange started in a new conversation begins with
\* a Meta frame carrying id N, that frame binds conversationIdRef of the sending
\* ChatBot to N and calls onConversationCreated(N); every later chunk of the
\* exchange finds the id still N and causes no further onConversationCreated call.
C11_MetaBindsBeforeText ==
  [][ \A e \in DOMAIN exch :
        (RecvStep(e) /\ exch[e].arg = NoConv) =>
          IF exch[e].n = 0
          THEN exch'[e].first # NoConv =>
                 /\ bots'[exch[e].owner].conversationIdRef = exch'[e].first
                 /\ notified' = Append(notified, exch'[e].first)
          ELSE exch[e].first # NoConv =>
                 /\ bots[exch[e].owner].conversationIdRef = exch[e].first
                 /\ notified' = notified ]_vars

\* C12: a chunk whose Meta frame makes the ChatBot call onConversationCreated (the
\* backend assigned the conversation id during the exchange) leaves the transcript
\* as it is, issues no history fetch, and leaves the exchange reading its stream.
C12_NoResetOnConversationCreated ==
  [][ \A e \in DOMAIN exch :
        (RecvStep(e) /\ notified' # notified) =>
          /\ Transcript' = Transcript
          /\ reqs' = reqs
          /\ exch'[e].phase = "read" ]_vars

\* C13: selecting the conversation that is already current (handleSelect on the
\* active entry, or handleClose, which re-selects activeConversationId) changes
\* neither the transcript nor the conversation id nor any exchange, and issues no
\* history fetch.
C13_SelectSameIsNoOp ==
  [][ (SelectStep /\ activeConversationId # NoConv
         /\ activeConversationId' = activeConversationId) =>
        /\ Transcript' = Transcript
        /\ CurrentRef' = CurrentRef
        /\ exch' = exch
        /\ reqs' = reqs ]_vars

\* C14: when a selection changes the current conversation, no exchange is still
\* in flight once the selection has cleared the transcript: the transport of every
\* exchange has been aborted by then.
C14_SelectAbortsExchange ==
  [][ (SelectStep /\ activeConversationId' # activeConversationId) =>
        \A e \in DOMAIN exch' : ~InFlight(exch'[e]) ]_vars

\* C15: a selection that changes the current conversation to id clears the
\* transcript, makes id the current conversation id and issues a history fetch for
\* id; when a history fetch of the mounted ChatBot resolves for the conversation
\* that is still current, the transcript becomes the fetched messages and the
\* conversation id is unchanged.
C15_SelectLoadsHistory ==
  [][ /\ (SelectStep /\ activeConversationId' # activeConversationId
            /\ activeConversationId' # NoConv) =>
           /\ Transcript' = <<>>
           /\ CurrentRef' = activeConversationId'
           /\ \E r \in DOMAIN reqs' \ DOMAIN reqs :
                /\ reqs'[r].key = activeConversationId'
                /\ reqs'[r].phase = "pending"
      /\ \A r \in DOMAIN reqs :
           (HistoryOk(r) /\ reqs[r].owner = Len(bots)
              /\ reqs[r].key = activeConversationId) =>
             /\ Transcript' = HistoryOf(reqs[r].key)
             /\ CurrentRef' = reqs[r].key ]_vars

\* C16: when the history fetch that the mounted ChatBot issued for the selected
\* conversation rejects, the transcript becomes the single assistant message
\* 'Failed to load conversation.' and the selected id stays the conversation id.
C16_HistoryFailureShowsOneError ==
  [][ \A r \in DOMAIN reqs :
        (HistoryReject(r) /\ reqs[r].owner = Len(bots)
           /\ reqs[r].key = activeConversationId) =>
          /\ Transcript' = <<LoadErrorMsg>>
          /\ CurrentRef' = reqs[r].key
          /\ activeConversationId' = reqs[r].key ]_vars

\* the history fetch of the selected conversation has failed and its error message
\* is the transcript
C16_Witness ==
  /\ Transcript = <<LoadErrorMsg>>
  /\ activeConversationId # NoConv
  /\ CurrentRef = activeConversationId
  /\ \E r \in DOMAIN reqs : reqs[r].key = activeConversationId /\ reqs[r].phase = "settled"

\* showWelcome of the mounted ChatBot (ChatBot.jsx:187-188, part_008:235)
showWelcome == activeConversationId = NoConv /\ ~bots[Len(bots)].hideWelcome

\* C17: after New Chat (a selection of null) no exchange is in flight any more, the
\* conversation id of the ChatBot is null, the transcript is empty and the welcome
\* placeholder is shown.
C17_NewChatResets ==
  [][ (SelectStep /\ activeConversationId' = NoConv) =>
        /\ \A e \in DOMAIN exch' : ~InFlight(exch'[e])
        /\ CurrentRef' = NoConv
        /\ Transcript' = <<>>
        /\ showWelcome' ]_vars

\* C18: New Chat invoked on the state a New Chat leaves (conversation null,
\* conversation id null, empty transcript, welcome shown) leaves the mounted ChatBot
\* with the same state, the welcome placeholder shown once, issues no history
\* fetch and changes no request and no exchange.
C18_NewChatIdempotent ==
  [][ (SelectStep /\ activeConversationId = NoConv /\ activeConversationId' = NoConv
         /\ CurrentRef = NoConv /\ Transcript = <<>> /\ showWelcome) =>
        /\ bots'[Len(bots')] = bots[Len(bots)]
        /\ showWelcome'
        /\ reqs' = reqs
        /\ inflight' = inflight
        /\ exch' = exch ]_vars

\* New Chat was invoked twice in a row while the exchange of a message sent in a
\* new conversation was in flight
C18_Witness ==
  /\ Len(bots) = 3 /\ chatResetKey = 2
  /\ activeConversationId = NoConv /\ notified = <<>> /\ reqs = <<>>
  /\ bots[2].conversationIdRef = NoConv
  /\ CurrentRef = NoConv /\ Transcript = <<>> /\ showWelcome
  /\ Len(exch) = 1 /\ exch[1].owner = 1 /\ InFlight(exch[1])

\* handleSend was accepted: a chatStream call was made
SendStep == Len(exch') = Len(exch) + 1

\* C19: an accepted handleSend appends to the transcript of the mounted ChatBot
\* the user message with the trimmed input and then the assistant placeholder with
\* empty content, leaves the earlier messages as they were, sets loading, and makes
\* one chatStream call, whose conversation id is the one current before the send.
C19_SendAppendsTwoAndStartsOne ==
  [][ SendStep =>
        LET e == Len(exch')
            n == Len(Transcript)
            cur == Len(bots)
        IN /\ ~bots[cur].loading
           /\ Len(Transcript') = n + 2
           /\ SubSeq(Transcript', 1, n) = Transcript
           /\ Transcript'[n + 1].role = "user"
           /\ Transcript'[n + 1].message # <<>>
           /\ Head(Transcript'[n + 1].message) \notin WhiteSpace
           /\ Transcript'[n + 1].message[Len(Transcript'[n + 1].message)] \notin WhiteSpace
           /\ \E inputMessage \in InputMessages :
                Transcript'[n + 1].message = Trim(inputMessage)
           /\ Transcript'[n + 2].role = "assistant"
           /\ Transcript'[n + 2].message = <<>>
           /\ Transcript'[n + 2].id = <<"assistant", e>>
           /\ bots'[cur].loading
           /\ bots'[cur].streamingIdRef = e
           /\ exch'[e].owner = cur
           /\ exch'[e].arg = CurrentRef
           /\ exch'[e].phase = "fetch"
           /\ activeChatController' = e
           /\ \A d \in DOMAIN exch : exch'[d].phase = "fetch" => exch[d].phase = "fetch" ]_vars

\* a message was just sent in a conversation whose transcript held earlier messages
C19_Witness ==
  /\ exch # <<>>
  /\ LET e == Len(exch)
         n == Len(Transcript)
     IN /\ exch[e].phase = "fetch"
        /\ exch[e].owner = Len(bots)
        /\ exch[e].arg # NoConv
        /\ n > 2
        /\ Transcript[n - 1] = UserMsg(e, <<"q">>)
        /\ Transcript[n] = AssistantMsg(e)
        /\ bots[Len(bots)].loading

\* the chatStream call of exchange e returns or throws
EndStep(e) == exch[e].phase # "ended" /\ exch'[e].phase = "ended"

\* C20: when the chatStream call of an exchange returns or throws (end of stream,
\* transport failure or abort), the ChatBot that sent it has loading false, no
\* streaming id and no other exchange of its own left, so its handleSend accepts
\* the next message.
C20_ExchangeEndReturnsToIdle ==
  [][ \A e \in DOMAIN exch :
        EndStep(e) =>
          LET o == exch[e].owner IN
          /\ ~bots'[o].loading
          /\ bots'[o].streamingIdRef = 0
          /\ \A d \in DOMAIN exch' : exch'[d].owner # o ]_vars

\* an exchange of the mounted ChatBot is over and the ChatBot is idle
C20_Witness ==
  \E e \in DOMAIN exch :
    /\ exch[e].phase = "ended"
    /\ \E i \in DOMAIN Transcript : IsStreamingMsg(Transcript[i], e)
    /\ ~bots[Len(bots)].loading
    /\ bots[Len(bots)].streamingIdRef = 0

\* the messages of the transcript msgs that belong to exchange e and show an error
ErrorsOf(msgs, e) ==
  {i \in DOMAIN msgs : IsStreamingMsg(msgs[i], e) /\ msgs[i].message \in ErrorTexts}

\* C21: when the transport of an exchange fails, before the response or during the
\* stream, while its placeholder is in the transcript, the transcript afterwards
\* holds exactly one error message for the exchange, the exchange is over and no
\* chatStream call was added.
C21_TransportFailureShowsOneError ==
  [][ \A e \in DOMAIN exch :
        (ChatFail(e) /\ \E i \in DOMAIN Transcript : IsStreamingMsg(Transcript[i], e)) =>
          /\ Cardinality(ErrorsOf(Transcript', e)) = 1
          /\ exch'[e].phase = "ended"
          /\ Len(exch') = Len(exch) ]_vars

\* C35: when handleSend was accepted while the history fetch of the selected
\* conversation was pending, the arrival of the history response, success or
\* failure, leaves the placeholder of the exchange in the transcript (so that
\* the text frames of the exchange still reach it).
C35_HistoryKeepsExchange ==
  [][ \A r \in 1..Len(reqs) : \A e \in 1..Len(exch) :
        ( /\ HistoryOk(r) \/ HistoryReject(r)
          /\ reqs[r].key = activeConversationId
          /\ InFlight(exch[e])
          /\ \E i \in DOMAIN Transcript : IsStreamingMsg(Transcript[i], e) ) =>
            \E i \in DOMAIN Transcript' : IsStreamingMsg(Transcript'[i], e) ]_vars

\* C36: handleSend sends only when the trimmed input is not empty and no exchange
\* of this ChatBot is in progress: every step that starts an exchange is taken by a
\* ChatBot that is not loading and has no exchange of its own in flight, it adds
\* exactly one exchange and a user message with non-empty text, and at no time
\* are two exchanges of one ChatBot instance in flight together.
C36_OneOwnExchangeInFlight ==
  /\ [][ Len(exch') # Len(exch) =>
          LET cur == Len(bots)
              e == Len(exch')
          IN /\ Len(exch') = Len(exch) + 1
             /\ ~bots[cur].loading
             /\ \A x \in 1..Len(exch) : ~(exch[x].owner = cur /\ InFlight(exch[x]))
             /\ exch'[e].owner = cur
             /\ \E i \in DOMAIN bots'[cur].messages :
                  /\ bots'[cur].messages[i].id = <<"user", e>>
                  /\ bots'[cur].messages[i].message # <<>>
        ]_vars
  /\ [](\A x, y \in 1..Len(exch) :
          (x # y /\ InFlight(exch[x]) /\ InFlight(exch[y])) => exch[x].owner # exch[y].owner)
  /\ [](\A x \in 1..Len(exch) :
          (InFlight(exch[x]) /\ bots[exch[x].owner].mounted) => bots[exch[x].owner].loading)

\* the displayed ChatBot has finished an exchange, whose reply is in its transcript,
\* and has its next exchange in flight
C36_Witness ==
  \E x, y \in 1..Len(exch) :
    /\ x < y
    /\ exch[x].phase = "ended"
    /\ \E i \in DOMAIN Transcript : IsStreamingMsg(Transcript[i], x)
    /\ InFlight(exch[y]) /\ exch[y].owner = Len(bots)
    /\ bots[Len(bots)].loading

\* C37: once an exchange the displayed ChatBot started in a new conversation has
\* bound the conversation id X of its stream, the ChatBot keeps X in every step
\* that is not a selection, and an exchange it starts carries conversation_id = X,
\* never null.
C37_BoundIdIsSent ==
  [][ \A e \in 1..Len(exch) :
        ( /\ ~SelectStep
          /\ exch[e].owner = Len(bots) /\ exch[e].arg = NoConv
          /\ exch[e].first # NoConv /\ CurrentRef = exch[e].first ) =>
            /\ CurrentRef' = CurrentRef
            /\ Len(exch') # Len(exch) => exch'[Len(exch')].arg = CurrentRef ]_vars

-----------------------------------------------------------------------------
(* The Sidebar and fetchJSON *)

MaxFetches == 5

\* inflightKey(url, method) of fetchConversations and of deleteConversation(c)
\* (keys are numbers: a conversation id c is the key of GET /conversations/c)
ListKey == -100

DeleteKey(c) == -c

FetchKeys == {ListKey} \cup {DeleteKey(c) : c \in ConvIds}

\* loadConversations: fetchConversations() up to the await of fetchJSON
LoadConversations(rs, inf) == FetchJSONCall(rs, inf, ListKey, 0)

\* deleteConversation requests whose handleDelete may still call loadConversations
PendingDeletes(rs) ==
  Cardinality({r \in DOMAIN rs : rs[r].key # ListKey /\ rs[r].phase = "pending"})

\* the calls made now and the calls handleDelete may still make fit the bound
FitsFetches(rs) == Len(rs) + PendingDeletes(rs) <= MaxFetches

\* The Sidebar has mounted: useState([]) and its two effects, each of which called
\* loadConversations.
FetchInit ==
  /\ \E first \in {LoadConversations(<<>>, [k \in FetchKeys |-> 0])} :
     \E second \in {LoadConversations(first.reqs, first.inflight)} :
       /\ reqs = second.reqs
       /\ inflight = second.inflight
  /\ conversations = [from |-> 0, list |-> {}]
  /\ serverList = ConvIds
  /\ layout = "none" /\ version = "none"
  /\ activeConversationId = 0 /\ chatResetKey = 0
  /\ bots = <<>> /\ exch = <<>> /\ activeChatController = 0 /\ notified = <<>>
  /\ stream = <<>> /\ flushAtEnd = TRUE /\ pos = 0 /\ value = <<>>
  /\ buffer = <<>> /\ pc = "idle" /\ delivered = <<>> /\ calls = <<>>
  /\ NoPacedBot
  /\ NoRouter

\* the prop activeConversationId changed: useEffect(..., [activeConversationId])
ActiveChanged ==
  /\ \E f \in {LoadConversations(reqs, inflight)} :
       /\ FitsFetches(f.reqs)
       /\ reqs' = f.reqs
       /\ inflight' = f.inflight
  /\ UNCHANGED <<conversations, serverList, layout, version, activeConversationId,
                 chatResetKey, bots, exch, activeChatController, notified, decVars, pacedVars, localStorage, location, route, form>>

\* handleDelete(e, id) on a row of the list, up to await deleteConversation(id)
HandleDelete(c) ==
  /\ c \in conversations.list
  /\ \E f \in {FetchJSONCall(reqs, inflight, DeleteKey(c), 0)} :
       /\ FitsFetches(f.reqs)
       /\ reqs' = f.reqs
       /\ inflight' = f.inflight
  /\ UNCHANGED <<conversations, serverList, layout, version, activeConversationId,
                 chatResetKey, bots, exch, activeChatController, notified, decVars, pacedVars, localStorage, location, route, form>>

\* fetchJSON returns the parsed response: its finally, then .then(setConversations)
\* for the list, or the rest of handleDelete, loadConversations(), for a deletion
FetchResolve(r) ==
  LET key == reqs[r].key
      settled == [reqs EXCEPT ![r].phase = "settled"]
      inf == FetchJSONFinally(inflight, key)
  IN /\ reqs[r].phase = "pending"
     /\ IF key = ListKey
        THEN /\ conversations' = [from |-> r, list |-> serverList]
             /\ reqs' = settled
             /\ inflight' = inf
             /\ UNCHANGED serverList
        ELSE /\ (-key) \in serverList
             /\ serverList' = serverList \ {(-key)}
             /\ \E f \in {LoadConversations(settled, inf)} :
                  /\ reqs' = f.reqs
                  /\ inflight' = f.inflight
             /\ UNCHANGED conversations
     /\ UNCHANGED <<layout, version, activeConversationId, chatResetKey, bots, exch,
                    activeChatController, notified, decVars, pacedVars, localStorage, location, route, form>>

\* fetchJSON throws, because the request failed or because a newer call for the key
\* aborted it: its finally, then .catch(console.error) or handleDelete's rejection.
\* The backend may have carried out a deletion whose response never arrived.
FetchReject(r) ==
  LET key == reqs[r].key IN
  /\ reqs[r].phase \in {"pending", "aborted"}
  /\ reqs' = [reqs EXCEPT ![r].phase = "settled"]
  /\ inflight' = FetchJSONFinally(inflight, key)
  /\ serverList' \in IF key = ListKey THEN {serverList}
                     ELSE {serverList, serverList \ {(-key)}}
  /\ UNCHANGED <<conversations, layout, version, activeConversationId, chatResetKey,
                 bots, exch, activeChatController, notified, decVars, pacedVars, localStorage, location, route, form>>

FetchNext ==
  \/ ActiveChanged
  \/ \E c \in ConvIds : HandleDelete(c)
  \/ \E r \in 1..Len(reqs) : FetchResolve(r)
  \/ \E r \in 1..Len(reqs) : FetchReject(r)

SpecFetch == FetchInit /\ [][FetchNext]_vars

\* C8: for every key, at most one fetchJSON request for the key is outstanding
\* and not aborted.
C8_OneOutstandingPerKey ==
  \A k \in DOMAIN inflight :
    Cardinality({r \in DOMAIN reqs : reqs[r].key = k /\ reqs[r].phase = "pending"}) <= 1

\* C27: when a fetchJSON request completes (success, failure or abort) while the
\* inflight entry of its key holds the controller of a newer request, the entry
\* is left as it is.
C27_FinallyKeepsNewerEntry ==
  [][ \A r \in 1..Len(reqs) :
        ( /\ FetchResolve(r) \/ FetchReject(r)
          /\ inflight[reqs[r].key] \notin {0, r} ) =>
            inflight'[reqs[r].key] = inflight[reqs[r].key] ]_vars

\* C38: the list the Sidebar shows is never replaced by the response of a
\* fetchConversations call issued before the call whose response it shows, so the
\* list shown once the call issued last has been answered is its response; a
\* response that is applied is the response of a pending fetchConversations call.
C38_ListFromNewestFetch ==
  [][ conversations' # conversations =>
        /\ conversations'.from > conversations.from
        /\ reqs[conversations'.from].key = ListKey
        /\ reqs[conversations'.from].phase = "pending" ]_vars

-----------------------------------------------------------------------------
(* SpecSide: the Sidebar in ChatLayout.jsx, beside the ChatBot; no message is sent *)

MaxSidebarMounts == 2
MaxSideRequests == 7

SideKeys == FetchKeys \cup ConvIds

\* the Sidebar is not rendered: {sidebarOpen && <Sidebar ... />}, the nth closed
NoSidebar(n) == [inst |-> n, open |-> FALSE, list |-> {}]

\* ChatLayout.jsx has mounted: sidebarOpen is false, the ChatBot shows the welcome
SideInit ==
  /\ layout = "keyed"
  /\ version \in {"v1", "p8"}
  /\ activeConversationId = NoConv
  /\ chatResetKey = 0
  /\ bots = <<NewBot(version, NoConv)>>
  /\ exch = <<>>
  /\ activeChatController = 0
  /\ reqs = <<>>
  /\ inflight = [k \in SideKeys |-> 0]
  /\ notified = <<>>
  /\ conversations = NoSidebar(0)
  /\ serverList = ConvIds
  /\ stream = <<>> /\ flushAtEnd = TRUE /\ pos = 0 /\ value = <<>>
  /\ buffer = <<>> /\ pc = "idle" /\ delivered = <<>> /\ calls = <<>>
  /\ NoPacedBot
  /\ NoRouter

\* the calls made now and the loadConversations calls that pending deletions of
\* handleDelete may still make fit the bound
FitsSide(rs) ==
  Len(rs) + Cardinality({r \in DOMAIN rs : rs[r].key \in FetchKeys \ {ListKey}
                                           /\ rs[r].phase = "pending"})
    <= MaxSideRequests

\* the toggle button opens the sidebar: a Sidebar mounts, useState([]), and its two
\* effects call loadConversations
SidebarOpen ==
  LET n == conversations.inst + 1 IN
  /\ ~conversations.open
  /\ n <= MaxSidebarMounts
  /\ \E first \in {FetchJSONCall(reqs, inflight, ListKey, n)} :
     \E second \in {FetchJSONCall(first.reqs, first.inflight, ListKey, n)} :
       /\ FitsSide(second.reqs)
       /\ reqs' = second.reqs
       /\ inflight' = second.inflight
  /\ conversations' = [inst |-> n, open |-> TRUE, list |-> {}]
  /\ UNCHANGED <<serverList, layout, version, activeConversationId, chatResetKey, bots,
                 exch, activeChatController, notified, decVars, pacedVars, localStorage, location, route, form>>

\* the toggle button closes the sidebar: the Sidebar unmounts
SidebarClose ==
  /\ conversations.open
  /\ conversations' = NoSidebar(conversations.inst)
  /\ UNCHANGED <<serverList, appVars, decVars, pacedVars, localStorage, location, route, form>>

\* handleSelect(id) on a row, handleNewChat or handleClose: onSelectConversation(id)
\* of ChatLayout.jsx:90-94, setSidebarOpen(false) included
SideSelect(id) ==
  /\ conversations.open
  /\ id \in conversations.list \cup {NoConv, activeConversationId}
  /\ Len(bots) < MaxBots
  /\ SelectApp(id)
  /\ FitsSide(reqs')
  /\ conversations' = NoSidebar(conversations.inst)
  /\ UNCHANGED <<serverList, decVars, pacedVars, localStorage, location, route, form>>

\* a handleDelete that also leaves the conversation it deletes
SideDeleteDeselects(c) ==
  /\ conversations.open
  /\ c \in conversations.list
  /\ \E f \in {FetchJSONCall(reqs, inflight, DeleteKey(c), conversations.inst)} :
       /\ FitsSide(f.reqs)
       /\ reqs' = f.reqs
       /\ inflight' = f.inflight
  /\ activeConversationId' = IF c = activeConversationId THEN NoConv
                             ELSE activeConversationId
  /\ UNCHANGED <<conversations, serverList, layout, version,
                 chatResetKey, bots, exch, activeChatController, notified, decVars,
                 pacedVars, localStorage, location, route, form>>

\* handleDelete(e, id) on a row of the list, up to await deleteConversation(id);
\* e.stopPropagation() keeps the click from the row's handleSelect
SideDelete(c) ==
  /\ conversations.open
  /\ c \in conversations.list
  /\ \E f \in {FetchJSONCall(reqs, inflight, DeleteKey(c), conversations.inst)} :
       /\ FitsSide(f.reqs)
       /\ reqs' = f.reqs
       /\ inflight' = f.inflight
  /\ UNCHANGED <<conversations, serverList, layout, version, activeConversationId,
                 chatResetKey, bots, exch, activeChatController, notified, decVars,
                 pacedVars, localStorage, location, route, form>>

\* setConversations(list) of the Sidebar that made request q: dropped by React
\* when that Sidebar is no longer mounted
SetConversations(q, list) ==
  IF conversations.open /\ conversations.inst = q.owner
  THEN [conversations EXCEPT !.list = list] ELSE conversations

\* a fetchJSON call of the Sidebar returns: its finally, then
\* .then(setConversations) for the list, or the rest of handleDelete,
\* loadConversations(), for a deletion
SideResolve(r) ==
  LET key == reqs[r].key
      settled == [reqs EXCEPT ![r].phase = "settled"]
      inf == FetchJSONFinally(inflight, key)
  IN /\ key \in FetchKeys
     /\ reqs[r].phase = "pending"
     /\ IF key = ListKey
        THEN /\ conversations' = SetConversations(reqs[r], serverList)
             /\ reqs' = settled
             /\ inflight' = inf
             /\ UNCHANGED serverList
        ELSE /\ (-key) \in serverList
             /\ serverList' = serverList \ {-key}
             /\ \E f \in {FetchJSONCall(settled, inf, ListKey, reqs[r].owner)} :
                  /\ reqs' = f.reqs
                  /\ inflight' = f.inflight
             /\ UNCHANGED conversations
     /\ UNCHANGED <<layout, version, activeConversationId, chatResetKey, bots, exch,
                    activeChatController, notified, decVars, pacedVars, localStorage, location, route, form>>

\* a fetchJSON call of the Sidebar throws (failed, or aborted by a newer call for
\* its key): its finally, then .catch(console.error) or handleDelete's rejection
SideReject(r) ==
  LET key == reqs[r].key IN
  /\ key \in FetchKeys
  /\ reqs[r].phase \in {"pending", "aborted"}
  /\ reqs' = [reqs EXCEPT ![r].phase = "settled"]
  /\ inflight' = FetchJSONFinally(inflight, key)
  /\ serverList' \in IF key = ListKey THEN {serverList}
                     ELSE {serverList, serverList \ {-key}}
  /\ UNCHANGED <<conversations, layout, version, activeConversationId, chatResetKey,
                 bots, exch, activeChatController, notified, decVars, pacedVars, localStorage, location, route, form>>

\* the history of a conversation the backend still has arrives
SideHistoryOk(r) ==
  /\ reqs[r].key \in serverList
  /\ HistoryOk(r)

SideHistoryReject(r) ==
  /\ reqs[r].key \in ConvIds
  /\ HistoryReject(r)

SideNext ==
  \/ SidebarOpen
  \/ SidebarClose
  \/ \E id \in ConvIds \cup {NoConv} : SideSelect(id)
  \/ \E c \in ConvIds : SideDelete(c)
  \/ \E r \in 1..Len(reqs) : SideResolve(r)
  \/ \E r \in 1..Len(reqs) : SideReject(r)
  \/ \E r \in 1..Len(reqs) : SideHistoryOk(r)
  \/ \E r \in 1..Len(reqs) : SideHistoryReject(r)

SpecSide == SideInit /\ [][SideNext]_vars

\* this step is a step of handleDelete(e, c): its call of deleteConversation, or
\* what follows its await
DeleteStep(c) ==
  \/ SideDelete(c)
  \/ \E r \in 1..Len(reqs) :
       reqs[r].key = DeleteKey(c) /\ (SideResolve(r) \/ SideReject(r))

\* C26: a handleDelete of the selected conversation changes neither the active
\* conversation id nor the transcript, and the chat passes to the null
\* conversation, or to the welcome state, only in a step that is
\* onSelectConversation(null).
C26_DeleteLeavesSelection ==
  [][ /\ \A c \in ConvIds :
           (c = activeConversationId /\ DeleteStep(c)) =>
             /\ activeConversationId' = activeConversationId
             /\ chatResetKey' = chatResetKey
             /\ Transcript' = Transcript
      /\ ((activeConversationId # NoConv /\ activeConversationId' = NoConv)
            \/ (~showWelcome /\ showWelcome')) => SideSelect(NoConv) ]_vars

\* the selected conversation was deleted on the backend by a handleDelete that
\* was called after its selection and has completed, and the ChatBot still shows
\* its history
C26_Witness ==
  /\ activeConversationId # NoConv
  /\ activeConversationId \notin serverList
  /\ \E h, r \in 1..Len(reqs) :
       /\ h < r
       /\ reqs[h].key = activeConversationId
       /\ reqs[r].key = DeleteKey(activeConversationId)
       /\ reqs[r].phase = "settled"
  /\ Transcript = HistoryOf(activeConversationId)

-----------------------------------------------------------------------------
(* The sentence-paced ChatBot (ChatBot.jsx:309) in the layout of part_011 *)

MaxPacedExchanges == 2
MaxPacedRequests == 2

SentenceEnd == {".", "!", "?"}

\* { role: 'assistant', message: "Nice to meet you. ...", variant: 'welcome' }
WelcomeMsg ==
  [role |-> "assistant", message |-> <<"Nice to meet you.">>, variant |-> "welcome"]

\* { role: 'assistant', message: 'Failed to load conversation.', error: true }
PacedErrorMsg ==
  [role |-> "assistant", message |-> <<"Failed to load conversation.">>, variant |-> "error"]

\* res.messages of GET /conversations/{id}: conversation c holds c exchanges
PacedHistoryOf(c) ==
  [i \in 1..(2 * c) |->
     [role |-> IF i % 2 = 1 THEN "user" ELSE "assistant", message |-> <<"h">>,
      variant |-> "history"]]

NoExchange(e) ==
  [phase |-> "idle", e |-> e, arg |-> NoConv, assistantIndex |-> 0, buf |-> <<>>, n |-> 0,
   superseded |-> FALSE, pushed |-> <<>>]

\* a match that takes whatever the buffer holds, terminated or not
SentenceMatchAnything(s) == [found |-> s # <<>>, sentence |-> s]

\* sentenceBufferRef.current.match(/([^.!?]+[.!?]+)/): the leftmost match, greedy
SentenceMatch(s) ==
  LET IsRun(i, j) == /\ s[j] \in SentenceEnd
                     /\ \A k \in i..(j - 1) : s[k] \notin SentenceEnd
      starts == {i \in 1..Len(s) : \E j \in (i + 1)..Len(s) : IsRun(i, j)}
  IN IF starts = {} THEN [found |-> FALSE, sentence |-> <<>>]
     ELSE LET i == CHOOSE x \in starts : \A y \in starts : x <= y
              j == CHOOSE x \in (i + 1)..Len(s) : IsRun(i, x)
              last == CHOOSE x \in j..Len(s) :
                        /\ \A k \in j..x : s[k] \in SentenceEnd
                        /\ x = Len(s) \/ s[x + 1] \notin SentenceEnd
          IN [found |-> TRUE, sentence |-> SubSeq(s, i, last)]

\* an index of the messages array that was never assigned
Hole == [role |-> "none", message |-> <<>>, variant |-> "hole"]

\* updated[assistantIndex] is a message
Present(msgs, assistantIndex) ==
  assistantIndex + 1 \in 1..Len(msgs) /\ msgs[assistantIndex + 1] # Hole

\* setMessages(prev => { if (!updated[assistantIndex]) return prev;
\*                       updated[assistantIndex].message += sentence; ... })
Release(msgs, assistantIndex, sentence) ==
  IF Present(msgs, assistantIndex)
  THEN [msgs EXCEPT ![assistantIndex + 1].message = @ \o sentence]
  ELSE msgs

\* processQueue from the test of its inner while (where a call resumes after
\* await sleep(120)) and from the test of its outer while (where a call starts),
\* up to the next await sleep(120) or to the end of the outer while
RECURSIVE InnerLoop(_, _), OuterLoop(_, _)
InnerLoop(st, assistantIndex) ==
  LET m == SentenceMatch(st.buffer) IN
  IF m.found
  THEN [queue |-> st.queue,
        buffer |-> SliceFrom(st.buffer, Len(m.sentence)),
        messages |-> Release(st.messages, assistantIndex, m.sentence),
        status |-> "sleeping"]
  ELSE OuterLoop(st, assistantIndex)

OuterLoop(st, assistantIndex) ==
  IF st.queue = <<>> THEN [st EXCEPT !.status = "exited"]
  ELSE InnerLoop([st EXCEPT !.queue = Tail(@), !.buffer = @ \o Head(st.queue)],
                 assistantIndex)

\* the refs and state of the ChatBot as one record
PacedBot ==
  [messages |-> messages, ref |-> conversationIdRef, queue |-> chunkQueueRef,
   processing |-> isProcessingRef, buffer |-> sentenceBufferRef, sleeping |-> sleeping,
   crashed |-> crashed, threw |-> FALSE]

\* processQueue(assistantIndex) called by exchange e
ProcessQueue(p, assistantIndex, e) ==
  IF p.processing THEN p
  ELSE LET r == OuterLoop([queue |-> p.queue, buffer |-> p.buffer,
                           messages |-> p.messages, status |-> "running"], assistantIndex)
       IN [p EXCEPT !.queue = r.queue, !.buffer = r.buffer, !.messages = r.messages,
                    !.processing = (r.status = "sleeping"),
                    !.sleeping = IF r.status = "sleeping"
                                 THEN Append(@, [assistantIndex |-> assistantIndex, e |-> e])
                                 ELSE @]

\* the onChunk callback of handleSend (ChatBot.jsx:545-556, part_008:573-576); the
\* layout of part_011 passes no onConversationCreated
OnChunk(p, assistantIndex, e, chunk) ==
  IF version = "v2" /\ StartsWith(chunk, Marker)
  THEN LET parsed == JSONParse(Trim(SliceFrom(chunk, Len(Marker)))) IN
       IF parsed.ok THEN [p EXCEPT !.ref = parsed.meta.conversation_id]
       ELSE [p EXCEPT !.threw = TRUE]
  ELSE ProcessQueue([p EXCEPT !.queue = Append(@, chunk)], assistantIndex, e)

\* the calls of the decode loop: chatStream got no onMeta, so only onChunk acts
RECURSIVE OnCalls(_, _, _, _)
OnCalls(p, assistantIndex, e, out) ==
  IF out = <<>> \/ p.threw THEN p
  ELSE OnCalls(IF Head(out).kind = "chunk"
               THEN OnChunk(p, assistantIndex, e, Head(out).text) ELSE p,
               assistantIndex, e, Tail(out))

\* the finally block of handleSend (ChatBot.jsx:558-571) without its last two calls:
\* the updater throws when the transcript has no message at assistantIndex
FlushSentenceBuffer(p, assistantIndex) ==
  IF p.buffer = <<>> THEN p
  ELSE IF Present(p.messages, assistantIndex)
  THEN [p EXCEPT !.messages = Release(@, assistantIndex, p.buffer), !.buffer = <<>>]
  ELSE [p EXCEPT !.crashed = TRUE, !.buffer = <<>>]

\* { role: 'assistant', message: 'Sorry, something went wrong. ...', error: true }
SendErrorMsg ==
  [role |-> "assistant", message |-> <<"Sorry, something went wrong.">>,
   variant |-> "error"]

\* the catch block of handleSend in part_008:577-588:
\* updated[assistantIndex] = { ...error message }
CatchSendError(p, assistantIndex) ==
  LET n == Len(p.messages)
      padded == p.messages \o [i \in 1..(assistantIndex + 1 - n) |-> Hole]
  IN [p EXCEPT !.messages = [padded EXCEPT ![assistantIndex + 1] = SendErrorMsg]]

\* the ChatBot ver after its mount, no request made
PacedMount(ver) ==
  /\ layout = "plain" /\ version = ver
  /\ activeConversationId = NoConv
  /\ messages = <<WelcomeMsg>>
  /\ loading = FALSE /\ isStreaming = FALSE
  /\ conversationIdRef = NoConv
  /\ chunkQueueRef = <<>> /\ isProcessingRef = FALSE /\ sentenceBufferRef = <<>>
  /\ sleeping = <<>>
  /\ exchange = NoExchange(0)
  /\ crashed = FALSE
  /\ reqs = <<>>
  /\ inflight = [k \in ConvIds |-> 0]
  /\ chatResetKey = 0 /\ bots = <<>> /\ exch = <<>> /\ activeChatController = 0
  /\ notified = <<>>
  /\ conversations = <<>> /\ serverList = {}

PacedInitOf(ver) ==
  /\ PacedMount(ver)
  /\ stream = <<>> /\ flushAtEnd = TRUE /\ pos = 0 /\ value = <<>>
  /\ buffer = <<>> /\ pc = "idle" /\ delivered = <<>> /\ calls = <<>>
  /\ NoRouter

PacedInit == PacedInitOf("v2")

PacedInitOld == PacedInitOf("v0")

pacedFrame == <<layout, version, chatResetKey, bots, exch, activeChatController, notified,
                decVars, sideVars, localStorage, location, route, form>>

\* onSelectConversation(id) of part_011:29-32, then the three effects of the
\* ChatBot on [activeConversationId] (ChatBot.jsx:345-398; part_008:429-471, whose
\* first effect resets the streaming refs on every change and clears no message)
PacedSelect(id) ==
  LET isUserSwitch == version = "v0" \/ (conversationIdRef # NoConv /\ conversationIdRef # id)
  IN
  /\ ~crashed
  /\ IF id = activeConversationId
     THEN UNCHANGED <<activeConversationId, reqs, inflight, pacedVars>>
     ELSE /\ activeConversationId' = id
          /\ chunkQueueRef' = IF isUserSwitch THEN <<>> ELSE chunkQueueRef
          /\ sentenceBufferRef' = IF isUserSwitch THEN <<>> ELSE sentenceBufferRef
          /\ isProcessingRef' = IF isUserSwitch THEN FALSE ELSE isProcessingRef
          /\ isStreaming' = IF isUserSwitch THEN FALSE ELSE isStreaming
          /\ messages' = IF id = NoConv THEN <<WelcomeMsg>>
                         ELSE IF isUserSwitch /\ version = "v2" THEN <<>> ELSE messages
          /\ conversationIdRef' = IF version = "v2" THEN id ELSE conversationIdRef
          /\ IF id = NoConv THEN UNCHANGED <<reqs, inflight>>
             ELSE \E f \in {FetchJSONCall(reqs, inflight, id, 0)} :
                    /\ Len(reqs) < MaxPacedRequests
                    /\ reqs' = f.reqs
                    /\ inflight' = f.inflight
          /\ exchange' = IF exchange.phase = "idle" THEN exchange
                         ELSE [exchange EXCEPT !.superseded = TRUE]
          /\ UNCHANGED <<loading, sleeping, crashed>>
  /\ UNCHANGED pacedFrame

\* handleSend up to await chatStream(...) (ChatBot.jsx:519-544), or up to
\* await streamMessage(userMessage, activeConversationId, ...) (part_008:548-573)
PacedSend ==
  /\ ~crashed
  /\ ~loading
  /\ exchange.e < MaxPacedExchanges
  /\ loading' = TRUE
  /\ isStreaming' = TRUE
  /\ messages' = messages \o
       << [role |-> "user", message |-> <<"q">>, variant |-> "sent"],
          [role |-> "assistant", message |-> <<>>, variant |-> "sent"] >>
  /\ exchange' = [NoExchange(exchange.e + 1) EXCEPT
                    !.phase = "fetch",
                    !.arg = IF version = "v2" THEN conversationIdRef
                            ELSE activeConversationId,
                    !.assistantIndex = Len(messages) + 1]
  /\ UNCHANGED <<conversationIdRef, chunkQueueRef, isProcessingRef, sentenceBufferRef,
                 sleeping, crashed, activeConversationId, reqs, inflight, pacedFrame>>

\* await fetch(...) resolves with an ok response
PacedRespond ==
  /\ ~crashed
  /\ exchange.phase = "fetch"
  /\ exchange' = [exchange EXCEPT !.phase = "read"]
  /\ UNCHANGED <<messages, loading, isStreaming, conversationIdRef, chunkQueueRef,
                 isProcessingRef, sentenceBufferRef, sleeping, crashed,
                 activeConversationId, reqs, inflight, pacedFrame>>

\* what the server may send next: text, a frame with the conversation id, or the
\* frame of the older backend, which has no terminator (part_004:121); to
\* streamMessage of part_008, whose code the repository does not hold, text only
PacedServerChunks(x) ==
  {<<"a", ".">>, <<"b">>}
    \cup {Frame(<<"{", "k", d, "}">>) :
            d \in {d \in Digits : version = "v2" /\ (x.arg = NoConv \/ DigitValue(d) = x.arg)}}
    \cup {Marker \o <<"{", "k", d, "}">> :
            d \in {d \in Digits : version = "v2" /\ (x.arg = NoConv \/ DigitValue(d) = x.arg)}}

\* the ChatBot after the calls out were made to its callbacks
AfterCalls(p) ==
  /\ messages' = p.messages
  /\ conversationIdRef' = p.ref
  /\ chunkQueueRef' = p.queue
  /\ isProcessingRef' = p.processing
  /\ sentenceBufferRef' = p.buffer
  /\ sleeping' = p.sleeping
  /\ crashed' = p.crashed

\* reader.read() returns chunk: the decode loop and the onChunk callback
PacedChunk(chunk) ==
  /\ ~crashed
  /\ exchange.phase = "read"
  /\ \E d \in {DecodeLoop(exchange.buf \o chunk)} :
       /\ AfterCalls(OnCalls(PacedBot, exchange.assistantIndex, exchange.e, d.out))
       /\ exchange' = [exchange EXCEPT !.buf = d.buf, !.n = @ + 1,
                                       !.pushed = @ \o TextOf(d.out)]
  /\ UNCHANGED <<loading, isStreaming, activeConversationId, reqs, inflight>>

\* reader.read() returns a chunk of what the server may send
PacedRecv ==
  /\ exchange.n < MaxChunksPerExchange
  /\ \E chunk \in PacedServerChunks(exchange) : PacedChunk(chunk)
  /\ UNCHANGED pacedFrame

\* reader.read() returns done: the final flush of chatStream, then the finally
\* block of handleSend
PacedStreamEnd ==
  /\ ~crashed
  /\ exchange.phase = "read"
  /\ \E out \in {FinalFlush(exchange.buf, TRUE)} :
       AfterCalls(FlushSentenceBuffer(
                    OnCalls(PacedBot, exchange.assistantIndex, exchange.e, out),
                    exchange.assistantIndex))
  /\ isStreaming' = FALSE
  /\ loading' = FALSE
  /\ exchange' = NoExchange(exchange.e)
  /\ UNCHANGED <<activeConversationId, reqs, inflight, pacedFrame>>

\* fetch or reader.read() rejects, or the response is not ok: chatStream throws,
\* the catch block of part_008:577 and the finally block of handleSend run
PacedFail ==
  /\ ~crashed
  /\ exchange.phase \in {"fetch", "read"}
  /\ AfterCalls(FlushSentenceBuffer(
                  IF version = "v0" THEN CatchSendError(PacedBot, exchange.assistantIndex)
                  ELSE PacedBot,
                  exchange.assistantIndex))
  /\ isStreaming' = FALSE
  /\ loading' = FALSE
  /\ exchange' = NoExchange(exchange.e)
  /\ UNCHANGED <<activeConversationId, reqs, inflight, pacedFrame>>

\* the timer of the oldest await sleep(120) fires: that processQueue call goes on
PacedWake ==
  /\ ~crashed
  /\ sleeping # <<>>
  /\ \E r \in {InnerLoop([queue |-> chunkQueueRef, buffer |-> sentenceBufferRef,
                          messages |-> messages, status |-> "running"],
                         Head(sleeping).assistantIndex)} :
       /\ chunkQueueRef' = r.queue
       /\ sentenceBufferRef' = r.buffer
       /\ messages' = r.messages
       /\ sleeping' = IF r.status = "sleeping" THEN Append(Tail(sleeping), Head(sleeping))
                      ELSE Tail(sleeping)
       /\ isProcessingRef' = IF r.status = "sleeping" THEN isProcessingRef ELSE FALSE
  /\ UNCHANGED <<loading, isStreaming, conversationIdRef, exchange, crashed,
                 activeConversationId, reqs, inflight, pacedFrame>>

\* fetchConversationHistory resolves: .then(res => setMessages(res.messages || []))
PacedHistoryOk(r) ==
  /\ ~crashed
  /\ reqs[r].phase = "pending"
  /\ reqs' = [reqs EXCEPT ![r].phase = "settled"]
  /\ inflight' = FetchJSONFinally(inflight, reqs[r].key)
  /\ messages' = PacedHistoryOf(reqs[r].key)
  /\ UNCHANGED <<loading, isStreaming, conversationIdRef, chunkQueueRef, isProcessingRef,
                 sentenceBufferRef, sleeping, exchange, crashed, activeConversationId,
                 pacedFrame>>

\* fetchConversationHistory rejects (failure, or abort by a newer call for the key)
PacedHistoryReject(r) ==
  /\ ~crashed
  /\ reqs[r].phase \in {"pending", "aborted"}
  /\ reqs' = [reqs EXCEPT ![r].phase = "settled"]
  /\ inflight' = FetchJSONFinally(inflight, reqs[r].key)
  /\ messages' = <<PacedErrorMsg>>
  /\ UNCHANGED <<loading, isStreaming, conversationIdRef, chunkQueueRef, isProcessingRef,
                 sentenceBufferRef, sleeping, exchange, crashed, activeConversationId,
                 pacedFrame>>

PacedNext ==
  \/ \E id \in ConvIds \cup {NoConv} : PacedSelect(id)
  \/ PacedSend
  \/ PacedRespond
  \/ PacedRecv
  \/ PacedStreamEnd
  \/ PacedFail
  \/ PacedWake
  \/ \E r \in 1..Len(reqs) : PacedHistoryOk(r)
  \/ \E r \in 1..Len(reqs) : PacedHistoryReject(r)

SpecPaced == PacedInit /\ [][PacedNext]_vars

SpecPacedOld == PacedInitOld /\ [][PacedNext]_vars

-----------------------------------------------------------------------------
(* SpecPace: one exchange, its response text cut into chunks in every way *)

MaxPaceChunk == 3

\* response bodies: sentences, a sentence ending in two terminators, the shape of
\* "Hello there. How are you?", three sentences, text with no terminator at its end
PaceTexts ==
  { <<"a", ".", "b", ".">>,
    <<"a", ".", ".", "b", ".">>,
    <<"a", "b", ".", "c", "d", "?">>,
    <<"a", ".", "b", ".", "c", ".">>,
    <<"a", ".", "b">> }

PaceInit ==
  /\ PacedMount("v2")
  /\ stream \in PaceTexts
  /\ flushAtEnd = TRUE /\ pos = 0 /\ value = <<>>
  /\ buffer = <<>> /\ pc = "idle" /\ delivered = <<>> /\ calls = <<>>
  /\ NoRouter

\* the one message of this specification is sent
PaceSend == exchange.e = 0 /\ PacedSend

\* reader.read() returns the next 1..MaxPaceChunk characters of the response
PaceRecv ==
  /\ \E k \in 1..Min(MaxPaceChunk, Len(stream) - pos) :
       /\ PacedChunk(SubSeq(stream, pos + 1, pos + k))
       /\ pos' = pos + k
  /\ UNCHANGED <<layout, version, chatResetKey, bots, exch, activeChatController, notified,
                 sideVars, localStorage, location, route, form, stream, flushAtEnd, value, buffer, pc, delivered, calls>>

\* reader.read() returns done after the whole response
PaceStreamEnd == pos = Len(stream) /\ PacedStreamEnd

PaceNext ==
  \/ PaceSend
  \/ PacedRespond
  \/ PaceRecv
  \/ PaceStreamEnd
  \/ PacedFail
  \/ PacedWake

SpecPace == PaceInit /\ [][PaceNext]_vars

-----------------------------------------------------------------------------
(* Claims about the sentence-paced ChatBot *)

\* this step is the exchange receiving a chunk
PacedRecvStep ==
  /\ exchange.phase = "read"
  /\ exchange'.phase = "read"
  /\ exchange'.n = exchange.n + 1

\* this step is a processQueue call of the exchange going on after its sleep
PacedWakeStep ==
  /\ sleeping # <<>>
  /\ Head(sleeping).e = exchange.e
  /\ exchange' = exchange
  /\ reqs' = reqs
  /\ activeConversationId' = activeConversationId
  /\ pacedVars' # pacedVars

\* C2: once the user has selected another conversation or New Chat while an
\* exchange is in flight, no chunk received by that exchange and no release of
\* its processQueue changes the transcript.
C2_SupersededExchangeSilent ==
  [][ (exchange.phase # "idle" /\ exchange.superseded /\ (PacedRecvStep \/ PacedWakeStep))
        => messages' = messages ]_vars

\* the transport of the exchange fails after the response began, while the
\* assistant message of the exchange shows text
FailsAfterText ==
  /\ PacedFail
  /\ exchange.phase = "read"
  /\ ~exchange.superseded
  /\ Present(messages, exchange.assistantIndex)
  /\ messages[exchange.assistantIndex + 1].message # <<>>

\* C22: when the stream fails after text of the exchange was applied, the
\* assistant message still begins with the text it showed before the failure,
\* and the exchange is over: no chatStream call is made for it again.
C22_FailureKeepsPartialText ==
  [][ FailsAfterText =>
        /\ Present(messages', exchange.assistantIndex)
        /\ StartsWith(messages'[exchange.assistantIndex + 1].message,
                      messages[exchange.assistantIndex + 1].message)
        /\ exchange'.phase = "idle"
        /\ exchange'.e = exchange.e ]_vars

\* the one exchange of SpecPace has ended and no processQueue call is running
PaceQuiescent ==
  /\ exchange.e = 1
  /\ exchange.phase = "idle"
  /\ sleeping = <<>>
  /\ ~isProcessingRef

\* the text of the assistant message of the one exchange of SpecPace
PaceShown == IF Present(messages, 2) THEN messages[3].message ELSE <<>>

\* C23: once the exchange has ended and no processQueue call is running, the
\* assistant message is the concatenation, in arrival order, of the chunks
\* pushed during the exchange, whatever the chunking and the interleaving of
\* arrival, pacing delay and stream end.
C23_PacedTextIsTheChunks ==
  PaceQuiescent => PaceShown = SubSeq(stream, 1, pos)

\* s is one match of the regex of processQueue and nothing else
IsSentence(s) == SentenceMatch(s).found /\ SentenceMatch(s).sentence = s

\* s is made of sentences, each one text closed by one terminator
TerminatedText(s) ==
  /\ s # <<>>
  /\ s[1] \notin SentenceEnd
  /\ s[Len(s)] \in SentenceEnd
  /\ \A i \in 1..(Len(s) - 1) : ~(s[i] \in SentenceEnd /\ s[i + 1] \in SentenceEnd)

\* C24: for every chunking of a text made of terminated sentences (the chunking
\* 1+3+2 of "ab.cd?" has the shape of "He", "llo there. How a", "re you?"), each
\* change of the assistant text, the stream not failing midway, appends exactly
\* one sentence, and once the whole stream was read, the exchange has ended and no
\* processQueue call is running, the assistant text is the whole text: k
\* sentences, k increments.
C24_OneIncrementPerSentence ==
  /\ [][ (/\ TerminatedText(stream) /\ exchange.e = 1
          /\ ~(PacedFail /\ pos < Len(stream))
          /\ PaceShown' # PaceShown) =>
           \E n \in 1..Len(stream) :
             /\ Len(PaceShown') = Len(PaceShown) + n
             /\ StartsWith(PaceShown', PaceShown)
             /\ IsSentence(SliceFrom(PaceShown', Len(PaceShown))) ]_vars
  /\ []((TerminatedText(stream) /\ PaceQuiescent /\ pos = Len(stream)) => PaceShown = stream)

\* C25: within the exchange, text reaches the transcript in arrival order: at
\* every moment the assistant message is a prefix of the concatenation of the
\* text frames the exchange has received so far.
C25_ShownIsPrefixOfReceived ==
  exchange.e = 1 => StartsWith(SubSeq(stream, 1, pos), PaceShown)

\* C31: when the exchange ends (chatStream returns or throws), what the pacing
\* still buffers, chunk queue and sentence accumulator, is appended to the
\* assistant message in that step and both are left empty.
C31_EndFlushesQueueAndBuffer ==
  [][ (exchange.e = 1 /\ exchange.phase # "idle" /\ exchange'.phase = "idle") =>
        /\ chunkQueueRef' = <<>>
        /\ sentenceBufferRef' = <<>>
        /\ StartsWith(PaceShown', PaceShown \o sentenceBufferRef)
        /\ Len(PaceShown') >= Len(PaceShown) + Len(sentenceBufferRef) + Len(chunkQueueRef)
    ]_vars

\* C32: while the exchange is streaming, every increment released to the
\* assistant message ends with a sentence terminator, and text with no
\* terminator waits in the accumulator: whenever no processQueue call sleeps,
\* the queue is empty and message and accumulator together hold all the text
\* received.
C32_ReleasesOnlyTerminatedText ==
  /\ [][ (/\ exchange.e = 1 /\ exchange.phase = "read" /\ exchange'.phase = "read"
          /\ PaceShown' # PaceShown) =>
           /\ StartsWith(PaceShown', PaceShown)
           /\ PaceShown'[Len(PaceShown')] \in SentenceEnd ]_vars
  /\ []((exchange.e = 1 /\ exchange.phase = "read" /\ sleeping = <<>>) =>
          /\ chunkQueueRef = <<>>
          /\ Len(PaceShown) + Len(sentenceBufferRef) = pos)

\* the exchange is streaming, a sentence was released, and text with no
\* terminator waits in the accumulator
C32_Witness ==
  /\ exchange.e = 1 /\ exchange.phase = "read"
  /\ PaceShown # <<>>
  /\ sentenceBufferRef # <<>>
  /\ \A i \in 1..Len(sentenceBufferRef) : sentenceBufferRef[i] \notin SentenceEnd

\* the text of the chunks in chunkQueueRef.current, in order
RECURSIVE QueuedText(_)
QueuedText(q) == IF q = <<>> THEN <<>> ELSE Head(q) \o QueuedText(Tail(q))

\* C33: text received by an exchange goes only to the assistant placeholder its
\* own handleSend created: while the exchange is in flight (no conversation
\* ever selected), the text it has pushed is in that placeholder, in the
\* accumulator or in the queue, none of it in an earlier assistant message.
C33_TextStaysWithItsExchange ==
  ( /\ exchange.phase = "read"
    /\ ~exchange.superseded
    /\ reqs = <<>>
    /\ ~crashed
    /\ Present(messages, exchange.assistantIndex) ) =>
      Len(messages[exchange.assistantIndex + 1].message) + Len(sentenceBufferRef)
        + Len(QueuedText(chunkQueueRef)) >= Len(exchange.pushed)

\* C34: a history response, success or failure, for a conversation that is no
\* longer the selected one (the user has switched to another conversation or
\* to New Chat) leaves the transcript as it is.
C34_LateHistoryNotApplied ==
  [][ \A r \in 1..Len(reqs) :
        ( /\ PacedHistoryOk(r) \/ PacedHistoryReject(r)
          /\ reqs[r].key # activeConversationId ) => messages' = messages ]_vars

-----------------------------------------------------------------------------
(* The routes of App.jsx: Login, Register and RequireAuth around ChatLayout *)

\* the paths a page load can start at: the four routes of App.jsx:26-40 and a
\* path only the catch-all route matches
Paths == {"/", "/login", "/register", "/chat", "/x"}

\* A page load.  localStorage outlives the page, and the browser or another
\* version of the application may have written or removed either item, so the
\* load finds any combination of the two items.
NavInit ==
  /\ localStorage \in [token : BOOLEAN, user : BOOLEAN]
  /\ location \in Paths
  /\ route = "none"
  /\ form = NoForm
  /\ stream = <<>> /\ flushAtEnd = TRUE /\ pos = 0 /\ value = <<>>
  /\ buffer = <<>> /\ pc = "idle" /\ delivered = <<>> /\ calls = <<>>
  /\ layout = "none" /\ version = "none"
  /\ activeConversationId = 0 /\ chatResetKey = 0
  /\ bots = <<>> /\ exch = <<>> /\ activeChatController = 0
  /\ reqs = <<>> /\ inflight = <<>> /\ notified = <<>>
  /\ conversations = <<>> /\ serverList = {}
  /\ NoPacedBot

\* RequireAuth: the path it navigates to, or "children" when it renders them
RequireAuth(ls) == IF ~ls.token \/ ~ls.user THEN "/login" ELSE "children"

\* Routes renders the element of the route that matches the location; a
\* <Navigate replace> element changes the location, which is rendered next
Render ==
  /\ route = "none"
  /\ IF location = "/login"
     THEN /\ route' = "Login"
          /\ form' = [NoForm EXCEPT !.effect = TRUE]
          /\ UNCHANGED location
     ELSE IF location = "/register"
     THEN /\ route' = "Register"
          /\ UNCHANGED <<location, form>>
     ELSE IF location = "/chat" /\ RequireAuth(localStorage) = "children"
     THEN /\ route' = "ChatLayout"
          /\ UNCHANGED <<location, form>>
     ELSE /\ location' = "/login"
          /\ UNCHANGED <<route, form>>
  /\ UNCHANGED <<localStorage, decVars, appVars, sideVars, pacedVars>>

\* the effect of Login after it has mounted: redirect if already logged in
LoginEffect ==
  /\ route = "Login" /\ form.effect
  /\ IF localStorage.token
     THEN /\ location' = "/chat"
          /\ route' = "none"
          /\ form' = NoForm
     ELSE /\ form' = [form EXCEPT !.effect = FALSE]
          /\ UNCHANGED <<location, route>>
  /\ UNCHANGED <<localStorage, decVars, appVars, sideVars, pacedVars>>

\* onChange of the two inputs of Login
LoginType ==
  /\ route = "Login" /\ ~form.effect
  /\ \/ \E username \in {"", "u"} : form' = [form EXCEPT !.username = username]
     \/ \E password \in {"", "p"} : form' = [form EXCEPT !.password = password]
  /\ UNCHANGED <<localStorage, location, route, decVars, appVars, sideVars, pacedVars>>

\* handleSubmit of Login up to await login(username, password)
LoginSubmit ==
  /\ route = "Login" /\ ~form.effect /\ ~form.loading
  /\ form' = IF form.username = "" \/ form.password = ""
             THEN [form EXCEPT !.error = "Both fields are required"]
             ELSE [form EXCEPT !.error = "", !.loading = TRUE]
  /\ UNCHANGED <<localStorage, location, route, decVars, appVars, sideVars, pacedVars>>

\* login() returns, both items are stored and navigate('/chat', { replace: true })
\* is called, or it throws and the catch sets the error; then the finally
LoginReturn ==
  /\ route = "Login" /\ form.loading
  /\ \/ /\ localStorage' = [token |-> TRUE, user |-> TRUE]
        /\ location' = "/chat"
        /\ route' = "none"
        /\ form' = NoForm
     \/ /\ form' = [form EXCEPT !.error = "Invalid credentials", !.loading = FALSE]
        /\ UNCHANGED <<localStorage, location, route>>
  /\ UNCHANGED <<decVars, appVars, sideVars, pacedVars>>

\* onChange of the three inputs of Register
RegisterType ==
  /\ route = "Register"
  /\ \/ \E username \in {"", "u"} : form' = [form EXCEPT !.username = username]
     \/ \E password \in {"", "p"} : form' = [form EXCEPT !.password = password]
     \/ \E confirmPassword \in {"", "p", "x"} :
          form' = [form EXCEPT !.confirmPassword = confirmPassword]
  /\ UNCHANGED <<localStorage, location, route, decVars, appVars, sideVars, pacedVars>>

\* handleSubmit of Register up to await register(username, password)
RegisterSubmit ==
  /\ route = "Register" /\ ~form.loading
  /\ form' = IF form.username = "" \/ form.password = "" \/ form.confirmPassword = ""
             THEN [form EXCEPT !.error = "All fields are required"]
             ELSE IF form.password # form.confirmPassword
             THEN [form EXCEPT !.error = "Passwords do not match"]
             ELSE [form EXCEPT !.error = "", !.loading = TRUE]
  /\ UNCHANGED <<localStorage, location, route, decVars, appVars, sideVars, pacedVars>>

\* register() returns and navigate('/login') is called, or it throws and the
\* catch sets the error; then the finally
RegisterReturn ==
  /\ route = "Register" /\ form.loading
  /\ \/ /\ location' = "/login"
        /\ route' = "none"
        /\ form' = NoForm
     \/ /\ form' = [form EXCEPT !.error = "Registration failed", !.loading = FALSE]
        /\ UNCHANGED <<location, route>>
  /\ UNCHANGED <<localStorage, decVars, appVars, sideVars, pacedVars>>

\* <Link to="/register"> of Login
GoRegister ==
  /\ route = "Login" /\ ~form.effect
  /\ location' = "/register"
  /\ route' = "none"
  /\ form' = NoForm
  /\ UNCHANGED <<localStorage, decVars, appVars, sideVars, pacedVars>>

\* <Link to="/login"> of Register
GoLogin ==
  /\ route = "Register"
  /\ location' = "/login"
  /\ route' = "none"
  /\ form' = NoForm
  /\ UNCHANGED <<localStorage, decVars, appVars, sideVars, pacedVars>>

\* handleLogout of ChatLayout: both items removed, window.location.replace('/login')
HandleLogout ==
  /\ route = "ChatLayout"
  /\ localStorage' = [token |-> FALSE, user |-> FALSE]
  /\ location' = "/login"
  /\ route' = "none"
  /\ UNCHANGED <<form, decVars, appVars, sideVars, pacedVars>>

\* the user loads a path in the address bar once the page has settled
Visit(path) ==
  /\ route # "none" /\ ~form.effect
  /\ location' = path
  /\ route' = "none"
  /\ form' = NoForm
  /\ UNCHANGED <<localStorage, decVars, appVars, sideVars, pacedVars>>

NavNext ==
  \/ Render
  \/ LoginEffect
  \/ LoginType
  \/ LoginSubmit
  \/ LoginReturn
  \/ RegisterType
  \/ RegisterSubmit
  \/ RegisterReturn
  \/ GoRegister
  \/ GoLogin
  \/ HandleLogout
  \/ \E path \in Paths : Visit(path)

SpecNav == NavInit /\ [][NavNext]_vars

\* React renders a changed location and runs the effect of a mounted page
\* without waiting for the user
SpecNavLive == SpecNav /\ WF_vars(Render) /\ WF_vars(LoginEffect)

\* C39: navigation settles and the chat page is guarded: ChatLayout is rendered
\* only while localStorage holds both the token and the user, and whenever a
\* location is still to be rendered or the redirect effect of Login is still to
\* run, a state is reached in which a page is rendered and no redirect is pending.
C39_NavigationSettles ==
  /\ [](route = "ChatLayout" => (localStorage.token /\ localStorage.user))
  /\ ((route = "none" \/ form.effect) ~> (route # "none" /\ ~form.effect))

====
